---- MODULE Spec2Model ----
(***************************************************************************)
(* Resource admission and rate governor of ACE-Step:                       *)
(*   acestep/memory_manager.py  MemoryManager (admission, protected work)  *)
(*   acestep/security.py        RateLimiter, GenerationLimiter,            *)
(*                              SessionManager                             *)
(* Memory is counted in whole GB, time in whole seconds.                   *)
(***************************************************************************)
EXTENDS Integers, Sequences, FiniteSets, TLC

VARIABLES
    config,             \* MemoryManager.config (MemoryConfig)
    ramAvail,           \* what get_system_memory_info()["available_gb"] reports now
    generation_count,   \* MemoryManager._generation_count
    pcM,                \* position of each caller inside the memory manager
    locM,               \* locals of each caller's memory-manager call
    clock,              \* time.time()
    requests,           \* RateLimiter._requests
    tally,              \* per identifier, the is_allowed calls allowed and denied so far,
                        \* and the clock readings of the allowed ones, in lock order
    pcR,                \* position of each caller inside RateLimiter
    locR,               \* locals of each caller's RateLimiter call
    generations,        \* GenerationLimiter._generations
    pcG,                \* position of each caller inside GenerationLimiter
    locG,               \* locals of each caller's GenerationLimiter call
    timeout_minutes,    \* the timeout_minutes SessionManager was built with
    sessions,           \* SessionManager._sessions
    issued,             \* the session ids create_session has handed out
    pcS,                \* position of each caller inside SessionManager
    locS,               \* locals of each caller's SessionManager call
    max_regions,        \* how many protected regions the workload runs
    completed,          \* protected regions left so far: [ok, failed]
    instance,           \* cls._instance: 0 for None, else the object's number
    initialized,        \* _initialized: "unset" before line 241, "False", "True"
    components,         \* the number of the objects the instance's fields hold
    cls_lock,           \* the holder of cls._lock, "" when free
    pcI,                \* position of each caller inside the constructor
    locI,               \* locals of each caller's constructor call
    sec_config,         \* SecurityManager.config: the access-control fields
    args,               \* the arguments of the function call under study
    ret,                \* what that call returned, Pending before it
    lock_holder,        \* each threading.Lock's holder, "" when free
    pcL                 \* each thread's lock-level position: [plan, at]

varsM == <<config, ramAvail, generation_count, pcM, locM, max_regions, completed>>
varsR == <<requests, tally, pcR, locR>>
varsG == <<generations, pcG, locG>>
varsS == <<timeout_minutes, sessions, issued, pcS, locS>>

varsI == <<instance, initialized, components, cls_lock, pcI, locI>>
varsA == <<sec_config, args, ret>>
varsL == <<lock_holder, pcL>>
varsX == <<varsI, varsA, varsL>>

vars == <<config, ramAvail, generation_count, pcM, locM, clock,
          requests, tally, pcR, locR, generations, pcG, locG,
          timeout_minutes, sessions, issued, pcS, locS,
          max_regions, completed,
          instance, initialized, components, cls_lock, pcI, locI,
          sec_config, args, ret, lock_holder, pcL>>

----------------------------------------------------------------------------
(* Bounds of the model: the memory of the machine in GB, and the number of  *)
(* protected regions a run asks for (with the environment changing the      *)
(* memory, on a quiet machine, and in a run long enough for the periodic    *)
(* cleanup).                                                                *)

MaxAvail == 7
MaxGenerationCount == 1
MaxQuietRegions == 2
MaxDeepRegions == 5

(* Program constants *)

MIN_FREE_RAM_GB == 5
DeepCleanupEvery == 5

Threads == {"t1", "t2"}

Min(a, b) == IF a < b THEN a ELSE b
Max(a, b) == IF a > b THEN a ELSE b

----------------------------------------------------------------------------
(* MemoryConfig: the thresholds of the admission policy.  The defaults are  *)
(* floor 5, critical 4, warning 6, aggressive_gc True; the other records    *)
(* are configurations the dataclass accepts.  The generation limits are     *)
(* those of _load_config's defaults (lines 280-281) after __post_init__.    *)

DefaultConfig ==
    [min_free_ram_gb |-> 5, critical_threshold_gb |-> 4,
     warning_threshold_gb |-> 6, aggressive_gc |-> TRUE,
     max_duration_seconds |-> 120, max_batch_size |-> 1]

MemoryConfig ==
    { DefaultConfig,
      [DefaultConfig EXCEPT !.critical_threshold_gb = 6,
                            !.warning_threshold_gb = 7],
      [DefaultConfig EXCEPT !.min_free_ram_gb = 3,
                            !.aggressive_gc = FALSE] }

(* estimated_memory_gb of a direct can_generate call, and of a protected    *)
(* region (generation_context, memory_limit_decorator).                     *)
EstChoices == {-1, 1, 2}
CostChoices == {1, 2}

Ops == {"can_generate", "generation_context", "memory_limit_decorator"}

----------------------------------------------------------------------------
(* MemoryManager.can_generate, lines 324-355: the branch taken for a        *)
(* snapshot value and an estimated cost.                                    *)

can_generate_first_check_dropped(cfg, available, estimated_memory_gb) ==
    IF available - estimated_memory_gb < cfg.min_free_ram_gb THEN "insufficient"
    ELSE IF available < cfg.critical_threshold_gb THEN "critical"
    ELSE IF available < cfg.warning_threshold_gb THEN "warning"
    ELSE "ok"

can_generate_warning_denies(cfg, available, estimated_memory_gb) ==
    IF available < cfg.min_free_ram_gb THEN "blocked"
    ELSE IF available - estimated_memory_gb < cfg.min_free_ram_gb THEN "insufficient"
    ELSE IF available < cfg.critical_threshold_gb THEN "critical"
    ELSE IF available < cfg.warning_threshold_gb THEN "blocked"
    ELSE "ok"

can_generate_branch(cfg, available, estimated_memory_gb) ==
    IF available < cfg.min_free_ram_gb THEN "blocked"
    ELSE IF available - estimated_memory_gb < cfg.min_free_ram_gb THEN "insufficient"
    ELSE IF available < cfg.critical_threshold_gb THEN "critical"
    ELSE IF available < cfg.warning_threshold_gb THEN "warning"
    ELSE "ok"

(* emergency_memory_cleanup's return value: the fresh snapshot against the  *)
(* module constant MIN_FREE_RAM_GB (line 143).                              *)
emergency_memory_cleanup(fresh) == fresh >= MIN_FREE_RAM_GB

(* The (can_proceed, message) pair returned for a branch; cleaned is the    *)
(* result of emergency_memory_cleanup and is read in the critical branch.   *)
can_generate_result(branch, cleaned) ==
    CASE branch = "blocked"      -> [can_proceed |-> FALSE, message |-> "BLOCKED"]
      [] branch = "insufficient" -> [can_proceed |-> FALSE, message |-> "WOULD_LEAVE_LESS"]
      [] branch = "critical"     ->
            IF cleaned
            THEN [can_proceed |-> TRUE, message |-> "CLEANUP_PERFORMED"]
            ELSE [can_proceed |-> FALSE, message |-> "CRITICAL_SHORTAGE"]
      [] branch = "warning"      -> [can_proceed |-> TRUE, message |-> "LOW_MEMORY_WARNING"]
      [] OTHER                   -> [can_proceed |-> TRUE, message |-> ""]

----------------------------------------------------------------------------
(* Locals of one call.  available: the snapshot can_generate decided on,    *)
(* kept until its result is used; decided: can_generate has returned;       *)
(* cleanups: the emergency_memory_cleanup attempts of the decision;         *)
(* entered: the protected region was entered; failed: it raised;            *)
(* fc_calls: the force_memory_cleanup invocations of this entry;            *)
(* tmp: the value of _generation_count read by the += of line 421;          *)
(* deep: this entry's force_memory_cleanup ran the periodic                 *)
(* emergency_memory_cleanup of lines 422-424.                               *)

NoCall ==
    [op |-> "none", est |-> 0, available |-> 0, decided |-> FALSE,
     can_proceed |-> FALSE, message |-> "", cleanups |-> 0,
     entered |-> FALSE, failed |-> FALSE, fc_calls |-> 0, tmp |-> 0,
     deep |-> FALSE]

(* The callers on their way into a protected region or inside one.         *)
InFlight == Cardinality({t \in Threads : pcM[t] \in {"cleanup", "admitted", "running"}})

(* The protected regions asked for so far: those left, and those under way. *)
RegionsStarted == completed.ok + completed.failed + InFlight

(* Where a call goes once can_generate has returned: a direct call returns  *)
(* the pair; generation_context (492-493) and the decorator (516-517) raise *)
(* MemoryError when denied and otherwise run the protected region.          *)
after_decision_enters_anyway(op, can_proceed) ==
    IF op = "can_generate" THEN "returned" ELSE "admitted"

after_decision(op, can_proceed) ==
    IF op = "can_generate" THEN "returned"
    ELSE IF can_proceed THEN "admitted" ELSE "raised"

(* A caller starts can_generate (directly, or from generation_context or    *)
(* the decorator): one snapshot is taken and the branch decided; the        *)
(* critical branch goes on to emergency_memory_cleanup.                     *)
MM_Call(t) ==
    /\ pcM[t] = "idle"
    /\ \E op \in Ops :
       \E est \in (IF op = "can_generate" THEN EstChoices ELSE CostChoices) :
         /\ op # "can_generate" => RegionsStarted < max_regions
         /\ LET available == ramAvail
                branch == can_generate_branch(config, available, est)
                res == can_generate_result(branch, FALSE)
                call == [NoCall EXCEPT !.op = op, !.est = est,
                                       !.available = available]
            IN IF branch = "critical"
               THEN /\ pcM' = [pcM EXCEPT ![t] = "cleanup"]
                    /\ locM' = [locM EXCEPT ![t] = call]
               ELSE /\ pcM' = [pcM EXCEPT ![t] = after_decision(op, res.can_proceed)]
                    /\ locM' = [locM EXCEPT ![t] =
                                  [call EXCEPT !.decided = TRUE,
                                               !.can_proceed = res.can_proceed,
                                               !.message = res.message]]
    /\ UNCHANGED <<config, ramAvail, generation_count, clock, max_regions, completed, varsR, varsG, varsS, varsX>>

(* The critical branch, lines 345-349: one emergency_memory_cleanup, which  *)
(* takes a fresh snapshot (line 140) and compares it with MIN_FREE_RAM_GB.  *)
MM_Cleanup(t) ==
    /\ pcM[t] = "cleanup"
    /\ LET fresh == ramAvail
           res == can_generate_result("critical", emergency_memory_cleanup(fresh))
       IN /\ pcM' = [pcM EXCEPT ![t] = after_decision(locM[t].op, res.can_proceed)]
          /\ locM' = [locM EXCEPT ![t] =
                        [locM[t] EXCEPT !.decided = TRUE,
                                        !.can_proceed = res.can_proceed,
                                        !.message = res.message,
                                        !.cleanups = @ + 1]]
    /\ UNCHANGED <<config, ramAvail, generation_count, clock, max_regions, completed, varsR, varsG, varsS, varsX>>

(* The protected region starts (the yield of line 499, the call of line     *)
(* 520) and takes its estimated memory.                                     *)
MM_Enter(t) ==
    /\ pcM[t] = "admitted"
    /\ pcM' = [pcM EXCEPT ![t] = "running"]
    /\ locM' = [locM EXCEPT ![t] =
                  [locM[t] EXCEPT !.entered = TRUE, !.available = 0, !.message = ""]]
    /\ ramAvail' = Max(0, ramAvail - locM[t].est)
    /\ UNCHANGED <<config, generation_count, clock, max_regions, completed, varsR, varsG, varsS, varsX>>

(* The protected region ends, normally or by raising, and gives its memory  *)
(* back; control reaches the finally clause (500-502, 522-523).             *)
MM_Exit(t) ==
    /\ pcM[t] = "running"
    /\ \E failed \in BOOLEAN :
         /\ locM' = [locM EXCEPT ![t] = [locM[t] EXCEPT !.failed = failed]]
         /\ completed' = IF failed
                         THEN [completed EXCEPT !.failed = @ + 1]
                         ELSE [completed EXCEPT !.ok = @ + 1]
    /\ pcM' = [pcM EXCEPT ![t] = "finally"]
    /\ ramAvail' = Min(MaxAvail, ramAvail + locM[t].est)
    /\ UNCHANGED <<config, generation_count, clock, max_regions, varsR, varsG, varsS, varsX>>

(* The finally clauses (500-502, 522-523): force_memory_cleanup is called   *)
(* once, whether or not the region raised.                                  *)
finally_calls_skipped_on_failure(failed) == IF failed THEN 0 ELSE 1

finally_cleanup_calls(failed) == 1

(* force_memory_cleanup, lines 395-421: returns at once when aggressive_gc  *)
(* is off; otherwise collects garbage and reads _generation_count for the   *)
(* += of line 421.                                                          *)
MM_ForceCleanup(t) ==
    /\ pcM[t] = "finally"
    /\ LET n == finally_cleanup_calls(locM[t].failed)
       IN IF n = 0 \/ ~config.aggressive_gc
          THEN /\ pcM' = [pcM EXCEPT ![t] = "exited"]
               /\ locM' = [locM EXCEPT ![t] = [locM[t] EXCEPT !.fc_calls = @ + n]]
          ELSE /\ pcM' = [pcM EXCEPT ![t] = "fc_write"]
               /\ locM' = [locM EXCEPT ![t] =
                             [locM[t] EXCEPT !.fc_calls = @ + n,
                                             !.tmp = generation_count]]
    /\ UNCHANGED <<config, ramAvail, generation_count, clock, max_regions, completed, varsR, varsG, varsS, varsX>>

(* Line 422: the periodic deep cleanup is due at every fifth value of the   *)
(* counter.                                                                 *)
deep_cleanup_due_every_sixth(count) == count % (DeepCleanupEvery + 1) = 0

deep_cleanup_due(count) == count % DeepCleanupEvery = 0

(* Lines 421-424: the counter is stored back, and every fifth value runs    *)
(* emergency_memory_cleanup.                                                *)
MM_ForceCleanupStore(t) ==
    /\ pcM[t] = "fc_write"
    /\ generation_count' = locM[t].tmp + 1
    /\ locM' = [locM EXCEPT ![t] =
                  [locM[t] EXCEPT !.deep = deep_cleanup_due(generation_count')]]
    /\ pcM' = [pcM EXCEPT ![t] = "exited"]
    /\ UNCHANGED <<config, ramAvail, clock, max_regions, completed, varsR, varsG, varsS, varsX>>

(* The call is over: the result was returned, MemoryError propagated, or    *)
(* the with block / decorated function was left.                            *)
MM_Return(t) ==
    /\ pcM[t] \in {"returned", "raised", "exited"}
    /\ pcM' = [pcM EXCEPT ![t] = "idle"]
    /\ locM' = [locM EXCEPT ![t] = NoCall]
    /\ UNCHANGED <<config, ramAvail, generation_count, clock, max_regions, completed, varsR, varsG, varsS, varsX>>

(* Other processes take and release memory, a GB at a time: the next        *)
(* snapshot may report any value.                                           *)
EnvMemory ==
    /\ \E a \in {ramAvail - 1, ramAvail + 1} \cap (0..MaxAvail) : ramAvail' = a
    /\ UNCHANGED <<config, generation_count, pcM, locM, clock, max_regions, completed, varsR, varsG, varsS, varsX>>

----------------------------------------------------------------------------
(* acestep/security.py *)

Ids == {"a", "b"}

(* Bounds: the RateLimiter's max_requests and window_seconds, the last      *)
(* clock value, and the number of is_allowed calls.                         *)
rl_max_requests == 2
rl_window_seconds == 3
MaxTime == 4
MaxCalls == 3

(* A defaultdict(list) read: a missing key reads as the empty list.         *)
Get(d, k) == IF k \in DOMAIN d THEN d[k] ELSE <<>>

(* d[k] = v *)
Put_drops_other_keys(d, k, v) == [x \in {k} |-> v]

Put(d, k, v) == [x \in DOMAIN d \cup {k} |-> IF x = k THEN v ELSE d[x]]

(* [t for t in list if t > window_start], lines 116-119 and 177-180 *)
Live(list, window_start) == SelectSeq(list, LAMBDA x : x > window_start)

RECURSIVE MinOf(_)
MinOf(list) ==
    IF Len(list) = 1 THEN Head(list)
    ELSE Min(Head(list), MinOf(Tail(list)))

(* RateLimiter.is_allowed, lines 112-129, on the stored list of one         *)
(* identifier: the result and the list stored afterwards.                   *)
is_allowed_remaining_not_decremented(list, now, max_requests, window_seconds) ==
    LET window_start == now - window_seconds
        pruned == Live(list, window_start)
        current_count == Len(pruned)
        remaining == max_requests - current_count
    IN IF current_count >= max_requests
       THEN [allowed |-> FALSE, remaining |-> 0, events |-> pruned]
       ELSE [allowed |-> TRUE, remaining |-> remaining,
             events |-> Append(pruned, now)]

is_allowed_keeps_boundary_event(list, now, max_requests, window_seconds) ==
    LET window_start == now - window_seconds
        pruned == SelectSeq(list, LAMBDA x : x >= window_start)
        current_count == Len(pruned)
        remaining == max_requests - current_count
    IN IF current_count >= max_requests
       THEN [allowed |-> FALSE, remaining |-> 0, events |-> pruned]
       ELSE [allowed |-> TRUE, remaining |-> remaining - 1,
             events |-> Append(pruned, now)]

is_allowed_cap_exceeded_by_one(list, now, max_requests, window_seconds) ==
    LET window_start == now - window_seconds
        pruned == Live(list, window_start)
        current_count == Len(pruned)
        remaining == max_requests - current_count
    IN IF current_count > max_requests
       THEN [allowed |-> FALSE, remaining |-> 0, events |-> pruned]
       ELSE [allowed |-> TRUE, remaining |-> remaining - 1,
             events |-> Append(pruned, now)]

is_allowed(list, now, max_requests, window_seconds) ==
    LET window_start == now - window_seconds
        pruned == Live(list, window_start)
        current_count == Len(pruned)
        remaining == max_requests - current_count
    IN IF current_count >= max_requests
       THEN [allowed |-> FALSE, remaining |-> 0, events |-> pruned]
       ELSE [allowed |-> TRUE, remaining |-> remaining - 1,
             events |-> Append(pruned, now)]

(* Locals of one is_allowed call; before and after are the identifier's     *)
(* stored list when the lock was taken and when it was released.            *)
NoRL ==
    [identifier |-> "", now |-> 0, before |-> <<>>, after |-> <<>>,
     allowed |-> FALSE, remaining |-> 0, reset_time |-> 0]

CallsSoFar ==
    LET RECURSIVE Total(_)
        Total(S) == IF S = {} THEN 0
                    ELSE LET k == CHOOSE x \in S : TRUE
                         IN tally[k].allowed + tally[k].denied + Total(S \ {k})
    IN Total(Ids) + Cardinality({t \in Threads : pcR[t] = "rl_lock"})

(* is_allowed, lines 111-112: the clock is read before the lock is taken.   *)
RL_IsAllowedClock(t) ==
    /\ pcR[t] = "idle"
    /\ CallsSoFar < MaxCalls
    /\ \E id \in Ids :
         locR' = [locR EXCEPT ![t] = [NoRL EXCEPT !.identifier = id, !.now = clock]]
    /\ pcR' = [pcR EXCEPT ![t] = "rl_lock"]
    /\ UNCHANGED <<requests, tally, clock, varsM, varsG, varsS, varsX>>

(* is_allowed, lines 114-129: the body under self._lock.                    *)
RL_IsAllowedLocked(t) ==
    /\ pcR[t] = "rl_lock"
    /\ LET id == locR[t].identifier
           before == Get(requests, id)
           r == is_allowed(before, locR[t].now, rl_max_requests, rl_window_seconds)
       IN /\ requests' = Put(requests, id, r.events)
          /\ locR' = [locR EXCEPT ![t] =
                        [locR[t] EXCEPT !.before = before, !.after = r.events,
                                        !.allowed = r.allowed,
                                        !.remaining = r.remaining]]
          /\ tally' = [tally EXCEPT ![id] =
                         IF r.allowed THEN [@ EXCEPT !.allowed = @ + 1,
                                                     !.granted = Append(@, locR[t].now)]
                                      ELSE [@ EXCEPT !.denied = @ + 1]]
    /\ pcR' = [pcR EXCEPT ![t] = "rl_done"]
    /\ UNCHANGED <<clock, varsM, varsG, varsS, varsX>>

(* The caller has the (is_allowed, remaining) pair, the reset time, or      *)
(* cleanup has returned.                                                    *)
RL_Return(t) ==
    /\ pcR[t] \in {"rl_done", "rs_done", "cl_done"}
    /\ pcR' = [pcR EXCEPT ![t] = "idle"]
    /\ locR' = [locR EXCEPT ![t] = NoRL]
    /\ UNCHANGED <<requests, tally, clock, varsM, varsG, varsS, varsX>>

(* One second passes.                                                       *)
Tick ==
    /\ clock < MaxTime
    /\ clock' = clock + 1
    /\ UNCHANGED <<varsM, varsR, varsG, varsS, varsX>>

RECURSIVE MaxOf(_)
MaxOf(list) ==
    IF Len(list) = 1 THEN Head(list)
    ELSE Max(Head(list), MaxOf(Tail(list)))

(* RateLimiter.get_reset_time, lines 133-138, on the stored list of the     *)
(* identifier (empty when the key is missing) and the clock read at line    *)
(* 138.                                                                     *)
get_reset_time(list, now, window_seconds) ==
    IF list = <<>> THEN 0
    ELSE Max(0, MinOf(list) + window_seconds - now)

(* RateLimiter.cleanup, lines 145-151, on the whole table: the keys with an *)
(* empty list, or with max(v) < window_start, are deleted.                  *)
cleanup(table, now, window_seconds) ==
    LET window_start == now - window_seconds
        expired == {k \in DOMAIN table :
                       table[k] = <<>> \/ MaxOf(table[k]) < window_start}
    IN [k \in DOMAIN table \ expired |-> table[k]]

(* get_reset_time: the whole body, clock reading included, is under the     *)
(* lock.                                                                    *)
RL_GetResetTime(t) ==
    /\ pcR[t] = "idle"
    /\ \E id \in Ids :
         locR' = [locR EXCEPT ![t] =
                    [NoRL EXCEPT !.identifier = id, !.now = clock,
                                 !.before = Get(requests, id),
                                 !.after = Get(requests, id),
                                 !.reset_time = get_reset_time(Get(requests, id), clock,
                                                               rl_window_seconds)]]
    /\ pcR' = [pcR EXCEPT ![t] = "rs_done"]
    /\ UNCHANGED <<requests, tally, clock, varsM, varsG, varsS, varsX>>

(* cleanup, lines 142-143: the clock is read before the lock is taken.      *)
RL_CleanupClock(t) ==
    /\ pcR[t] = "idle"
    /\ locR' = [locR EXCEPT ![t] = [NoRL EXCEPT !.now = clock]]
    /\ pcR' = [pcR EXCEPT ![t] = "cl_lock"]
    /\ UNCHANGED <<requests, tally, clock, varsM, varsG, varsS, varsX>>

(* cleanup, lines 145-151: the body under self._lock.                       *)
RL_CleanupLocked(t) ==
    /\ pcR[t] = "cl_lock"
    /\ requests' = cleanup(requests, locR[t].now, rl_window_seconds)
    /\ pcR' = [pcR EXCEPT ![t] = "cl_done"]
    /\ UNCHANGED <<locR, tally, clock, varsM, varsG, varsS, varsX>>

NextRMaint ==
    \/ \E t \in Threads : RL_IsAllowedClock(t)
    \/ \E t \in Threads : RL_IsAllowedLocked(t)
    \/ \E t \in Threads : RL_GetResetTime(t)
    \/ \E t \in Threads : RL_CleanupClock(t)
    \/ \E t \in Threads : RL_CleanupLocked(t)
    \/ \E t \in Threads : RL_Return(t)
    \/ Tick

NextR ==
    \/ \E t \in Threads : RL_IsAllowedClock(t)
    \/ \E t \in Threads : RL_IsAllowedLocked(t)
    \/ \E t \in Threads : RL_Return(t)
    \/ Tick

----------------------------------------------------------------------------
(* GenerationLimiter                                                        *)

(* Bounds: max_generations, the events record_generation may store for one  *)
(* identifier, and the clock (in thirds of the window).                     *)
gl_max_generations == 2

(* One identifier: the lists of the others do not enter a call.             *)
GenIds == {"a"}
MaxGenEvents == 3
MaxGenTicks == 4

(* window_hours = 1 (line 332), window_seconds = window_hours * 3600        *)
window_hours == 1
SecondsPerHour == 3600
SecondsPerMinute == 60
gl_window_seconds == window_hours * SecondsPerHour
GenTick == gl_window_seconds \div 3

(* int(x): truncation toward zero *)
IntTrunc(num, den) ==
    IF num >= 0 THEN num \div den ELSE -((-num) \div den)

(* GenerationLimiter.can_generate, lines 173-191, on the stored list of one *)
(* identifier.  raised: line 186 indexes an empty list.  reset_minutes is   *)
(* the number in the denial message, 0 when there is no message.            *)
gl_can_generate_records_event(list, now, max_generations, window_seconds) ==
    LET window_start == now - window_seconds
        pruned == Live(list, window_start)
        current_count == Len(pruned)
        remaining == max_generations - current_count
    IN IF current_count >= max_generations
       THEN IF pruned = <<>>
            THEN [raised |-> TRUE, allowed |-> FALSE, remaining |-> 0,
                  reset_minutes |-> 0, events |-> pruned]
            ELSE LET reset_seconds == pruned[1] + window_seconds - now
                     reset_minutes == IntTrunc(reset_seconds, SecondsPerMinute) + 1
                 IN [raised |-> FALSE, allowed |-> FALSE, remaining |-> 0,
                     reset_minutes |-> reset_minutes, events |-> pruned]
       ELSE [raised |-> FALSE, allowed |-> TRUE, remaining |-> remaining,
             reset_minutes |-> 0, events |-> Append(pruned, now)]

gl_can_generate_minutes_truncated(list, now, max_generations, window_seconds) ==
    LET window_start == now - window_seconds
        pruned == Live(list, window_start)
        current_count == Len(pruned)
        remaining == max_generations - current_count
    IN IF current_count >= max_generations
       THEN IF pruned = <<>>
            THEN [raised |-> TRUE, allowed |-> FALSE, remaining |-> 0,
                  reset_minutes |-> 0, events |-> pruned]
            ELSE LET reset_seconds == pruned[1] + window_seconds - now
                     reset_minutes == IntTrunc(reset_seconds, SecondsPerMinute)
                 IN [raised |-> FALSE, allowed |-> FALSE, remaining |-> 0,
                     reset_minutes |-> reset_minutes, events |-> pruned]
       ELSE [raised |-> FALSE, allowed |-> TRUE, remaining |-> remaining,
             reset_minutes |-> 0, events |-> pruned]

gl_can_generate(list, now, max_generations, window_seconds) ==
    LET window_start == now - window_seconds
        pruned == Live(list, window_start)
        current_count == Len(pruned)
        remaining == max_generations - current_count
    IN IF current_count >= max_generations
       THEN IF pruned = <<>>
            THEN [raised |-> TRUE, allowed |-> FALSE, remaining |-> 0,
                  reset_minutes |-> 0, events |-> pruned]
            ELSE LET reset_seconds == pruned[1] + window_seconds - now
                     reset_minutes == IntTrunc(reset_seconds, SecondsPerMinute) + 1
                 IN [raised |-> FALSE, allowed |-> FALSE, remaining |-> 0,
                     reset_minutes |-> reset_minutes, events |-> pruned]
       ELSE [raised |-> FALSE, allowed |-> TRUE, remaining |-> remaining,
             reset_minutes |-> 0, events |-> pruned]

NoGL ==
    [identifier |-> "", now |-> 0, before |-> <<>>, after |-> <<>>,
     raised |-> FALSE, allowed |-> FALSE, remaining |-> 0, reset_minutes |-> 0]

(* can_generate, lines 172-173: the clock is read before the lock is taken. *)
GL_CanGenerateClock(t) ==
    /\ pcG[t] = "idle"
    /\ \E id \in GenIds :
         locG' = [locG EXCEPT ![t] = [NoGL EXCEPT !.identifier = id, !.now = clock]]
    /\ pcG' = [pcG EXCEPT ![t] = "gl_lock"]
    /\ UNCHANGED <<generations, clock, varsM, varsR, varsS, varsX>>

(* can_generate, lines 175-191: the body under self._lock.                  *)
GL_CanGenerateLocked(t) ==
    /\ pcG[t] = "gl_lock"
    /\ LET id == locG[t].identifier
           before == Get(generations, id)
           r == gl_can_generate(before, locG[t].now, gl_max_generations,
                                gl_window_seconds)
       IN /\ generations' = Put(generations, id, r.events)
          /\ locG' = [locG EXCEPT ![t] =
                        [locG[t] EXCEPT !.before = before, !.after = r.events,
                                        !.raised = r.raised,
                                        !.allowed = r.allowed,
                                        !.remaining = r.remaining,
                                        !.reset_minutes = r.reset_minutes]]
    /\ pcG' = [pcG EXCEPT ![t] = "gl_done"]
    /\ UNCHANGED <<clock, varsM, varsR, varsS, varsX>>

(* The caller has the (can_generate, remaining, message) triple.            *)
GL_Return(t) ==
    /\ pcG[t] = "gl_done"
    /\ pcG' = [pcG EXCEPT ![t] = "idle"]
    /\ locG' = [locG EXCEPT ![t] = NoGL]
    /\ UNCHANGED <<generations, clock, varsM, varsR, varsS, varsX>>

(* record_generation, lines 193-196: time.time() is appended under the      *)
(* lock.                                                                    *)
GL_RecordGeneration(t) ==
    /\ pcG[t] = "idle"
    /\ \E id \in GenIds :
         /\ Len(Get(generations, id)) < MaxGenEvents
         /\ generations' = Put(generations, id, Append(Get(generations, id), clock))
    /\ UNCHANGED <<pcG, locG, clock, varsM, varsR, varsS, varsX>>

(* A caller that follows the protocol: check_generation_limit (lines        *)
(* 451-456) has allowed it, it has generated, and it calls                  *)
(* record_generation (lines 460, 193-196).                                  *)
GP_GenerateAndRecord(t) ==
    /\ pcG[t] = "gl_done"
    /\ locG[t].allowed
    /\ LET id == locG[t].identifier
       IN /\ Len(Get(generations, id)) < MaxGenEvents
          /\ generations' = Put(generations, id, Append(Get(generations, id), clock))
    /\ pcG' = [pcG EXCEPT ![t] = "idle"]
    /\ locG' = [locG EXCEPT ![t] = NoGL]
    /\ UNCHANGED <<clock, varsM, varsR, varsS, varsX>>

(* A caller that was denied, or whose generation failed, records nothing.   *)
GP_GiveUp(t) ==
    /\ pcG[t] = "gl_done"
    /\ pcG' = [pcG EXCEPT ![t] = "idle"]
    /\ locG' = [locG EXCEPT ![t] = NoGL]
    /\ UNCHANGED <<generations, clock, varsM, varsR, varsS, varsX>>

(* A third of the window passes.                                            *)
TickGen ==
    /\ clock + GenTick <= MaxGenTicks * GenTick
    /\ clock' = clock + GenTick
    /\ UNCHANGED <<varsM, varsR, varsG, varsS, varsX>>

(* The moments at which generations were recorded and can_generate is       *)
(* called, in seconds: around the ends of the minutes of the window.        *)
GenTimes == {0, 1, 61, 3540, 3541, 3599, 3600, 3661}

(* The lists record_generation can have built: it appends time.time() under *)
(* the lock, so a list is in the order of the clock.                        *)
RecordedLists ==
    {l \in UNION {[1..n -> GenTimes] : n \in 0..MaxGenEvents} :
        \A i, j \in 1..Len(l) : i <= j => l[i] <= l[j]}

NextGMsg ==
    \/ \E t \in Threads : GL_CanGenerateClock(t)
    \/ \E t \in Threads : GL_CanGenerateLocked(t)
    \/ \E t \in Threads : GL_Return(t)

(* Callers that record only what check_generation_limit has allowed.        *)
NextGP ==
    \/ \E t \in Threads : GL_CanGenerateClock(t)
    \/ \E t \in Threads : GL_CanGenerateLocked(t)
    \/ \E t \in Threads : GP_GenerateAndRecord(t)
    \/ \E t \in Threads : GP_GiveUp(t)
    \/ TickGen

NextG ==
    \/ \E t \in Threads : GL_CanGenerateClock(t)
    \/ \E t \in Threads : GL_CanGenerateLocked(t)
    \/ \E t \in Threads : GL_Return(t)
    \/ \E t \in Threads : GL_RecordGeneration(t)
    \/ TickGen

----------------------------------------------------------------------------
(* SessionManager                                                           *)

(* Bound: the clock, in half minutes.                                       *)
MaxSessTicks == 3

TimeoutChoices == {-1, 0, 1}
SessionIds == {"s1", "s2"}
SessTick == SecondsPerMinute \div 2

(* line 220 *)
timeout_seconds == timeout_minutes * SecondsPerMinute

(* del d[k] *)
Remove(d, k) == [x \in DOMAIN d \ {k} |-> d[x]]

(* An Optional[Session] is the empty set or the set of one session.         *)
Lookup(d, k) == IF k \in DOMAIN d THEN {d[k]} ELSE {}

(* SessionManager.validate_session, lines 250-265, on the session table:    *)
(* the value returned and the table afterwards.                             *)
validate_session_expires_at_timeout(table, session_id, now, timeout) ==
    IF session_id \notin DOMAIN table
    THEN [result |-> {}, table |-> table]
    ELSE LET session == table[session_id]
         IN IF timeout > 0 /\ now - session.last_activity >= timeout
            THEN [result |-> {}, table |-> Remove(table, session_id)]
            ELSE LET touched == [session EXCEPT !.last_activity = now]
                 IN [result |-> {touched},
                     table |-> Put(table, session_id, touched)]

validate_session(table, session_id, now, timeout) ==
    IF session_id \notin DOMAIN table
    THEN [result |-> {}, table |-> table]
    ELSE LET session == table[session_id]
         IN IF timeout > 0 /\ now - session.last_activity > timeout
            THEN [result |-> {}, table |-> Remove(table, session_id)]
            ELSE LET touched == [session EXCEPT !.last_activity = now]
                 IN [result |-> {touched},
                     table |-> Put(table, session_id, touched)]

(* Locals of one validate_session call; before and stored are the table's   *)
(* entry for session_id when the lock was taken and when it was released.   *)
(* expired is the local list of cleanup_expired, lines 281-284.             *)
NoSM == [session_id |-> "", now |-> 0, before |-> {}, result |-> {}, stored |-> {},
         expired |-> {}]

(* create_session, lines 226-241: a new token, and the session stored       *)
(* under it.  Tokens are 32 random bytes; none is handed out twice.         *)
SM_CreateSession(t) ==
    /\ pcS[t] = "idle"
    /\ \E session_id \in SessionIds \ issued :
         /\ sessions' = Put(sessions, session_id,
                            [session_id |-> session_id, username |-> "admin",
                             ip_address |-> "127.0.0.1", created_at |-> clock,
                             last_activity |-> clock, generation_count |-> 0])
         /\ issued' = issued \cup {session_id}
    /\ UNCHANGED <<timeout_minutes, pcS, locS, clock, varsM, varsR, varsG, varsX>>

(* validate_session, lines 245-248: an empty id returns None; otherwise the *)
(* clock is read before the lock is taken.                                  *)
SM_ValidateClock(t) ==
    /\ pcS[t] = "idle"
    /\ \E session_id \in SessionIds \cup {""} :
         IF session_id = ""
         THEN /\ pcS' = [pcS EXCEPT ![t] = "sm_done"]
              /\ locS' = [locS EXCEPT ![t] = NoSM]
         ELSE /\ pcS' = [pcS EXCEPT ![t] = "sm_lock"]
              /\ locS' = [locS EXCEPT ![t] =
                            [NoSM EXCEPT !.session_id = session_id, !.now = clock]]
    /\ UNCHANGED <<timeout_minutes, sessions, issued, clock, varsM, varsR, varsG, varsX>>

(* validate_session, lines 250-265: the body under self._lock.              *)
SM_ValidateLocked(t) ==
    /\ pcS[t] = "sm_lock"
    /\ LET session_id == locS[t].session_id
           r == validate_session(sessions, session_id, locS[t].now, timeout_seconds)
       IN /\ sessions' = r.table
          /\ locS' = [locS EXCEPT ![t] =
                        [locS[t] EXCEPT !.before = Lookup(sessions, session_id),
                                        !.result = r.result,
                                        !.stored = Lookup(r.table, session_id)]]
    /\ pcS' = [pcS EXCEPT ![t] = "sm_done"]
    /\ UNCHANGED <<timeout_minutes, issued, clock, varsM, varsR, varsG, varsX>>

(* The caller has the Optional[Session].                                    *)
SM_Return(t) ==
    /\ pcS[t] = "sm_done"
    /\ pcS' = [pcS EXCEPT ![t] = "idle"]
    /\ locS' = [locS EXCEPT ![t] = NoSM]
    /\ UNCHANGED <<timeout_minutes, sessions, issued, clock, varsM, varsR, varsG, varsX>>

(* end_session, lines 269-272, on the session table: the table afterwards. *)
end_session_pops_any(table, session_id) ==
    IF table # <<>>
    THEN Remove(table, CHOOSE k \in DOMAIN table : TRUE) ELSE table

end_session(table, session_id) ==
    IF session_id \in DOMAIN table
    THEN Remove(table, session_id) ELSE table

(* end_session, lines 267-272 *)
SM_EndSession(t) ==
    /\ pcS[t] = "idle"
    /\ \E session_id \in SessionIds :
         sessions' = end_session(sessions, session_id)
    /\ UNCHANGED <<timeout_minutes, issued, pcS, locS, clock, varsM, varsR, varsG, varsX>>

(* cleanup_expired, lines 281-284: the ids it collects under the lock.      *)
expired_sessions_at_timeout(table, now, timeout) ==
    {sid \in DOMAIN table : now - table[sid].last_activity >= timeout}

expired_sessions(table, now, timeout) ==
    {sid \in DOMAIN table : now - table[sid].last_activity > timeout}

(* cleanup_expired, lines 276-279: with no timeout it returns at once;      *)
(* otherwise the clock is read before the lock is taken.                    *)
SM_CleanupClock(t) ==
    /\ pcS[t] = "idle"
    /\ IF timeout_seconds <= 0
       THEN /\ pcS' = [pcS EXCEPT ![t] = "ce_done"]
            /\ locS' = [locS EXCEPT ![t] = NoSM]
       ELSE /\ pcS' = [pcS EXCEPT ![t] = "ce_lock"]
            /\ locS' = [locS EXCEPT ![t] = [NoSM EXCEPT !.now = clock]]
    /\ UNCHANGED <<timeout_minutes, sessions, issued, clock, varsM, varsR, varsG, varsX>>

(* cleanup_expired, lines 280-288: the body under self._lock.               *)
SM_CleanupLocked(t) ==
    /\ pcS[t] = "ce_lock"
    /\ LET gone == expired_sessions(sessions, locS[t].now, timeout_seconds)
       IN /\ sessions' = [sid \in DOMAIN sessions \ gone |-> sessions[sid]]
          /\ locS' = [locS EXCEPT ![t] = [locS[t] EXCEPT !.expired = gone]]
    /\ pcS' = [pcS EXCEPT ![t] = "ce_done"]
    /\ UNCHANGED <<timeout_minutes, issued, clock, varsM, varsR, varsG, varsX>>

(* cleanup_expired has returned.                                            *)
SM_CleanupReturn(t) ==
    /\ pcS[t] = "ce_done"
    /\ pcS' = [pcS EXCEPT ![t] = "idle"]
    /\ locS' = [locS EXCEPT ![t] = NoSM]
    /\ UNCHANGED <<timeout_minutes, sessions, issued, clock, varsM, varsR, varsG, varsX>>

(* Half a minute passes.                                                    *)
TickSess ==
    /\ clock + SessTick <= MaxSessTicks * SessTick
    /\ clock' = clock + SessTick
    /\ UNCHANGED <<varsM, varsR, varsG, varsS, varsX>>

NextS ==
    \/ \E t \in Threads : SM_CreateSession(t)
    \/ \E t \in Threads : SM_ValidateClock(t)
    \/ \E t \in Threads : SM_ValidateLocked(t)
    \/ \E t \in Threads : SM_Return(t)
    \/ \E t \in Threads : SM_EndSession(t)
    \/ TickSess

(* The session manager with its background cleanup_expired as well.         *)
NextSMaint ==
    \/ \E t \in Threads : SM_CreateSession(t)
    \/ \E t \in Threads : SM_ValidateClock(t)
    \/ \E t \in Threads : SM_ValidateLocked(t)
    \/ \E t \in Threads : SM_Return(t)
    \/ \E t \in Threads : SM_EndSession(t)
    \/ \E t \in Threads : SM_CleanupClock(t)
    \/ \E t \in Threads : SM_CleanupLocked(t)
    \/ \E t \in Threads : SM_CleanupReturn(t)
    \/ TickSess

----------------------------------------------------------------------------
(* The singleton constructors: MemoryManager.__new__ / __init__             *)
(* (memory_manager.py 233-262) and SecurityManager.__new__ / __init__       *)
(* (security.py 307-345), which are the same code but for the fields built. *)

NoNew == [self |-> 0, seen |-> 0]

(* Line 237 / 311: the unlocked test of cls._instance; an instance that is  *)
(* there is returned at once (line 242 / 316).                              *)
I_NewCheck(t) ==
    /\ pcI[t] = "idle"
    /\ IF instance = 0
       THEN /\ pcI' = [pcI EXCEPT ![t] = "new_wait"]
            /\ UNCHANGED locI
       ELSE /\ pcI' = [pcI EXCEPT ![t] = "init_check"]
            /\ locI' = [locI EXCEPT ![t] = [NoNew EXCEPT !.self = instance]]
    /\ UNCHANGED <<instance, initialized, components, cls_lock,
                   varsM, clock, varsR, varsG, varsS, varsA, varsL>>

(* Line 238 / 312: with cls._lock *)
I_NewAcquire(t) ==
    /\ pcI[t] = "new_wait"
    /\ cls_lock = ""
    /\ cls_lock' = t
    /\ pcI' = [pcI EXCEPT ![t] = "new_locked"]
    /\ UNCHANGED <<instance, initialized, components, locI,
                   varsM, clock, varsR, varsG, varsS, varsA, varsL>>

(* Lines 239-240 / 313-314: the second test under the lock, and the new     *)
(* object stored in cls._instance; the object has no _initialized yet.      *)
new_must_create(inst) == inst = 0

I_NewLocked(t) ==
    /\ pcI[t] = "new_locked"
    /\ IF new_must_create(instance)
       THEN /\ instance' = instance + 1
            /\ initialized' = "unset"
            /\ pcI' = [pcI EXCEPT ![t] = "new_flag"]
       ELSE /\ pcI' = [pcI EXCEPT ![t] = "new_unlock"]
            /\ UNCHANGED <<instance, initialized>>
    /\ UNCHANGED <<components, cls_lock, locI,
                   varsM, clock, varsR, varsG, varsS, varsA, varsL>>

(* Line 241 / 315: cls._instance._initialized = False *)
I_NewSetFlag(t) ==
    /\ pcI[t] = "new_flag"
    /\ initialized' = "False"
    /\ pcI' = [pcI EXCEPT ![t] = "new_unlock"]
    /\ UNCHANGED <<instance, components, cls_lock, locI,
                   varsM, clock, varsR, varsG, varsS, varsA, varsL>>

(* The with block is left and line 242 / 316 returns cls._instance.         *)
I_NewRelease(t) ==
    /\ pcI[t] = "new_unlock"
    /\ cls_lock' = ""
    /\ pcI' = [pcI EXCEPT ![t] = "init_check"]
    /\ locI' = [locI EXCEPT ![t] = [NoNew EXCEPT !.self = instance]]
    /\ UNCHANGED <<instance, initialized, components,
                   varsM, clock, varsR, varsG, varsS, varsA, varsL>>

(* Lines 245-246 / 319-320: __init__ returns when self._initialized is      *)
(* true; the read is not under any lock, and raises AttributeError when     *)
(* line 241 / 315 has not run yet.                                          *)
I_InitCheck(t) ==
    /\ pcI[t] = "init_check"
    /\ pcI' = [pcI EXCEPT ![t] =
                 IF initialized = "unset" THEN "raised"
                 ELSE IF initialized = "True" THEN "init_done"
                 ELSE "init_body"]
    /\ UNCHANGED <<instance, initialized, components, cls_lock, locI,
                   varsM, clock, varsR, varsG, varsS, varsA, varsL>>

(* Lines 248-251 / 322-341: the body builds new objects (config, limiters,  *)
(* session registry, counters) and stores them in the instance's fields.    *)
I_InitBuild(t) ==
    /\ pcI[t] = "init_body"
    /\ components' = components + 1
    /\ pcI' = [pcI EXCEPT ![t] = "init_flag"]
    /\ UNCHANGED <<instance, initialized, cls_lock, locI,
                   varsM, clock, varsR, varsG, varsS, varsA, varsL>>

(* Line 252 / 343: self._initialized = True *)
I_InitSetFlag(t) ==
    /\ pcI[t] = "init_flag"
    /\ initialized' = "True"
    /\ pcI' = [pcI EXCEPT ![t] = "init_done"]
    /\ UNCHANGED <<instance, components, cls_lock, locI,
                   varsM, clock, varsR, varsG, varsS, varsA, varsL>>

(* The caller has the instance and reads its fields (manager.can_generate,  *)
(* manager.rate_limiter, ...).                                              *)
I_Use(t) ==
    /\ pcI[t] = "init_done"
    /\ locI' = [locI EXCEPT ![t] = [locI[t] EXCEPT !.seen = components]]
    /\ pcI' = [pcI EXCEPT ![t] = "have"]
    /\ UNCHANGED <<instance, initialized, components, cls_lock,
                   varsM, clock, varsR, varsG, varsS, varsA, varsL>>

(* The caller is done with this access, or AttributeError reached it.       *)
I_Return(t) ==
    /\ pcI[t] \in {"have", "raised"}
    /\ pcI' = [pcI EXCEPT ![t] = "idle"]
    /\ locI' = [locI EXCEPT ![t] = NoNew]
    /\ UNCHANGED <<instance, initialized, components, cls_lock,
                   varsM, clock, varsR, varsG, varsS, varsA, varsL>>

NextI ==
    \/ \E t \in Threads : I_NewCheck(t)
    \/ \E t \in Threads : I_NewAcquire(t)
    \/ \E t \in Threads : I_NewLocked(t)
    \/ \E t \in Threads : I_NewSetFlag(t)
    \/ \E t \in Threads : I_NewRelease(t)
    \/ \E t \in Threads : I_InitCheck(t)
    \/ \E t \in Threads : I_InitBuild(t)
    \/ \E t \in Threads : I_InitSetFlag(t)
    \/ \E t \in Threads : I_Use(t)
    \/ \E t \in Threads : I_Return(t)

----------------------------------------------------------------------------
(* SecurityManager.check_ip_access, security.py 403-429 *)

(* A string is a sequence of tokens: a blank, or a run of non-blank         *)
(* characters that spells an address.                                       *)
Addresses == {"127.0.0.1", "10.0.0.5", "10.0.0.6"}
Tokens == Addresses \cup {" "}
MaxIpLen == 3
IpStrings == UNION {[1..n -> Tokens] : n \in 1..MaxIpLen}

(* The entries of allowed_ips and blocked_ips: str_to_set (lines 68-71)     *)
(* keeps stripped, non-empty items.                                         *)
ConfiguredIps == {<<a>> : a \in Addresses}

(* ('127.0.0.1', 'localhost', '::1'), line 421 *)
Loopback == {<<"127.0.0.1">>, <<"localhost">>, <<"::1">>}

DefaultSecurityConfig ==
    [localhost_only |-> FALSE, allowed_ips |-> {}, blocked_ips |-> {}]

SecurityConfig ==
    [localhost_only : BOOLEAN,
     allowed_ips : SUBSET ConfiguredIps,
     blocked_ips : SUBSET ConfiguredIps]

NoArgs == [fn |-> "none"]
Pending == [pending |-> TRUE]

(* str.strip(), line 411: leading and trailing blanks are removed.          *)
strip(str) ==
    LET solid == {i \in 1..Len(str) : str[i] # " "}
    IN IF solid = {} THEN <<>>
       ELSE SubSeq(str, CHOOSE i \in solid : \A j \in solid : i <= j,
                        CHOOSE i \in solid : \A j \in solid : i >= j)

(* check_ip_access, lines 410-429 *)
check_ip_access_allow_list_first(cfg, ip_address) ==
    LET ip == strip(ip_address)
    IN IF cfg.allowed_ips # {} /\ ip \in cfg.allowed_ips
       THEN [is_allowed |-> TRUE, message |-> ""]
       ELSE IF ip \in cfg.blocked_ips
       THEN [is_allowed |-> FALSE, message |-> "Acesso bloqueado"]
       ELSE IF cfg.localhost_only /\ ip \notin Loopback
       THEN [is_allowed |-> FALSE, message |-> "Apenas acesso local permitido"]
       ELSE IF cfg.allowed_ips # {} /\ ip \notin cfg.allowed_ips
       THEN [is_allowed |-> FALSE, message |-> "IP nao autorizado"]
       ELSE [is_allowed |-> TRUE, message |-> ""]

check_ip_access(cfg, ip_address) ==
    LET ip == strip(ip_address)
    IN IF ip \in cfg.blocked_ips
       THEN [is_allowed |-> FALSE, message |-> "Acesso bloqueado"]
       ELSE IF cfg.localhost_only /\ ip \notin Loopback
       THEN [is_allowed |-> FALSE, message |-> "Apenas acesso local permitido"]
       ELSE IF cfg.allowed_ips # {} /\ ip \notin cfg.allowed_ips
       THEN [is_allowed |-> FALSE, message |-> "IP nao autorizado"]
       ELSE [is_allowed |-> TRUE, message |-> ""]

(* One call of check_ip_access: it reads self.config and assigns nothing.   *)
IP_CheckAccess ==
    /\ args.fn = "check_ip_access"
    /\ ret = Pending
    /\ ret' = check_ip_access(sec_config, args.ip_address)
    /\ UNCHANGED <<sec_config, args, varsM, clock, varsR, varsG, varsS, varsI, varsL>>

NextIp == IP_CheckAccess

----------------------------------------------------------------------------
(* The generation limits: MemoryConfig.__post_init__ (196-222),             *)
(* validate_generation_params (361-393), get_generation_constraints         *)
(* (426-455).  Durations are in seconds, memory in GB.                      *)

MaxParamAvail == 10
ConfiguredDurations == {60, 90, 120, 180, 300}
ConfiguredBatchSizes == {0, 1, 4}
DurationChoices == {30, 60, 90, 120, 150, 180, 240}
BatchSizeChoices == {-1, 0, 1, 2, 4}
ParamCalls == {"MemoryConfig", "validate_generation_params",
               "get_generation_constraints"}

(* __post_init__, lines 212-222, on the fields the limits depend on: a low  *)
(* available_ram at construction caps max_duration_seconds at 60, and       *)
(* max_batch_size is set to 1.                                              *)
post_init(cfg, available_ram) ==
    [cfg EXCEPT !.max_duration_seconds =
                    IF available_ram < cfg.warning_threshold_gb
                    THEN Min(@, 60) ELSE @,
                !.max_batch_size = 1]

(* Lines 375-380: the duration ceiling of validate_generation_params.       *)
max_duration(cfg, available) ==
    IF available < 6 THEN 60
    ELSE IF available < 8 THEN 120
    ELSE cfg.max_duration_seconds

(* validate_generation_params, lines 370-393; warnings is the list of the   *)
(* warnings appended, by kind.                                              *)
validate_generation_params(cfg, available, duration, batch_size) ==
    LET ceiling == max_duration(cfg, available)
        clamp_duration == duration > ceiling
        clamp_batch == batch_size > 1
    IN [duration |-> IF clamp_duration THEN ceiling ELSE duration,
        batch_size |-> IF clamp_batch THEN 1 ELSE batch_size,
        warnings |-> (IF clamp_duration THEN <<"duration">> ELSE <<>>)
                     \o (IF clamp_batch THEN <<"batch_size">> ELSE <<>>)]

(* get_generation_constraints, lines 428-455 *)
get_generation_constraints(cfg, available) ==
    [max_duration_seconds |->
        IF available < 6 THEN 60
        ELSE IF available < 8 THEN 120
        ELSE IF available < 10 THEN 180
        ELSE cfg.max_duration_seconds,
     max_batch_size |-> 1,
     memory_tier |->
        IF available < 6 THEN "critical"
        ELSE IF available < 8 THEN "low"
        ELSE IF available < 10 THEN "normal"
        ELSE "optimal",
     available_memory_gb |-> available,
     min_free_ram_gb |-> cfg.min_free_ram_gb]

(* MemoryConfig(...) as _load_config calls it (lines 275-282) with the      *)
(* values of ACESTEP_MAX_DURATION and ACESTEP_MAX_BATCH_SIZE; the dataclass *)
(* runs __post_init__ on the snapshot of that moment.                       *)
PR_Construct ==
    /\ args.fn = "MemoryConfig"
    /\ ret = Pending
    /\ config' = post_init([config EXCEPT
                               !.max_duration_seconds = args.max_duration_seconds,
                               !.max_batch_size = args.max_batch_size],
                           args.available_ram)
    /\ ret' = [done |-> TRUE]
    /\ UNCHANGED <<args, sec_config, ramAvail, generation_count, pcM, locM,
                   max_regions, completed, clock, varsR, varsG, varsS, varsI, varsL>>

(* One call of validate_generation_params on the built manager.             *)
PR_Validate ==
    /\ args.fn \in ParamCalls
    /\ ret # Pending
    /\ \E duration \in DurationChoices, batch_size \in BatchSizeChoices :
         /\ args' = [fn |-> "validate_generation_params", available |-> ramAvail,
                     duration |-> duration, batch_size |-> batch_size]
         /\ ret' = validate_generation_params(config, ramAvail, duration, batch_size)
    /\ UNCHANGED <<sec_config, varsM, clock, varsR, varsG, varsS, varsI, varsL>>

(* One call of get_generation_constraints on the built manager.             *)
PR_Constraints ==
    /\ args.fn \in ParamCalls
    /\ ret # Pending
    /\ args' = [fn |-> "get_generation_constraints", available |-> ramAvail]
    /\ ret' = get_generation_constraints(config, ramAvail)
    /\ UNCHANGED <<sec_config, varsM, clock, varsR, varsG, varsS, varsI, varsL>>

(* The available memory of the machine is another one.                      *)
PR_EnvMemory ==
    /\ args.fn \in ParamCalls
    /\ \E a \in 0..MaxParamAvail : a # ramAvail /\ ramAvail' = a
    /\ UNCHANGED <<config, generation_count, pcM, locM, max_regions, completed,
                   clock, varsR, varsG, varsS, varsX>>

NextP == PR_Construct \/ PR_Validate \/ PR_Constraints \/ PR_EnvMemory

----------------------------------------------------------------------------
(* The memory probe: get_system_memory_info (39-81), get_process_memory_gb  *)
(* (84-99), get_current_memory_usage (284-316) and its callers can_generate *)
(* (324) and get_status (459).  psutil's readings are taken in GB; the      *)
(* values of /proc/meminfo are in KB.                                       *)

MaxProbeAvail == 8
KBPerGB == 1024 * 1024
TotalChoices == {8, 16}

(* What the process finds: psutil imports and works, is not installed, or   *)
(* imports and one of its calls raises; /proc/meminfo is complete, lacks    *)
(* the MemTotal and MemAvailable lines, holds a non-number, or can not be   *)
(* opened.                                                                  *)
PsutilStates == {"ok", "missing", "virtual_memory_raises", "process_raises"}
MeminfoStates == {"ok", "partial", "garbled", "unreadable"}
ProbeCallers == {"can_generate", "get_status"}

(* The machine as the kernel sees it, in GB. *)
Machine(total, available) ==
    [total |-> total, available |-> available, free |-> available \div 2]

(* The text of /proc/meminfo as key -> KB, for a machine m.                 *)
proc_meminfo(state, m) ==
    IF state = "ok"
    THEN [MemTotal |-> m.total * KBPerGB, MemAvailable |-> m.available * KBPerGB,
          MemFree |-> m.free * KBPerGB]
    ELSE [MemFree |-> m.free * KBPerGB]

(* dict.get(key, default) *)
GetOr(d, k, default) == IF k \in DOMAIN d THEN d[k] ELSE default

NoInfo == [total_gb |-> 0, available_gb |-> 0, used_gb |-> 0,
           percent_used |-> 0, free_gb |-> 0]

(* Lines 74-80 *)
FallbackInfo == [total_gb |-> 16, available_gb |-> 8, used_gb |-> 8,
                 percent_used |-> 50, free_gb |-> 4]

(* get_system_memory_info, lines 41-81: only ImportError leads to the       *)
(* /proc/meminfo branch; an exception of that branch gives the fallback.    *)
get_system_memory_info(env, m) ==
    IF env.psutil \in {"ok", "process_raises"}
    THEN [raised |-> FALSE,
          info |-> [total_gb |-> m.total, available_gb |-> m.available,
                    used_gb |-> m.total - m.available,
                    percent_used |-> ((m.total - m.available) * 100) \div m.total,
                    free_gb |-> m.free]]
    ELSE IF env.psutil = "virtual_memory_raises"
    THEN [raised |-> TRUE, info |-> NoInfo]
    ELSE IF env.meminfo \in {"garbled", "unreadable"}
    THEN [raised |-> FALSE, info |-> FallbackInfo]
    ELSE LET kb == proc_meminfo(env.meminfo, m)
             mem_info == [k \in DOMAIN kb |-> kb[k] \div KBPerGB]
             total == GetOr(mem_info, "MemTotal", 0)
             available == GetOr(mem_info, "MemAvailable",
                                GetOr(mem_info, "MemFree", 0))
             used == total - available
         IN [raised |-> FALSE,
             info |-> [total_gb |-> total, available_gb |-> available,
                       used_gb |-> used,
                       percent_used |-> IF total > 0
                                        THEN (used * 100) \div total ELSE 0,
                       free_gb |-> GetOr(mem_info, "MemFree", 0)]]

(* get_process_memory_gb, lines 86-99: raises what psutil.Process raises,   *)
(* unless it is ImportError.                                                *)
get_process_memory_gb_raises(env) == env.psutil = "process_raises"

(* get_current_memory_usage, lines 298-303: no try around the two probes.   *)
get_current_memory_usage(env, m) ==
    LET mem_info == get_system_memory_info(env, m)
    IN IF mem_info.raised THEN mem_info
       ELSE IF get_process_memory_gb_raises(env)
       THEN [raised |-> TRUE, info |-> NoInfo]
       ELSE mem_info

(* can_generate (line 324) or get_status (line 459) is called: the usage    *)
(* is read first, outside any try.                                          *)
PB_Call ==
    /\ args.fn \in ProbeCallers
    /\ ret = Pending
    /\ LET usage == get_current_memory_usage(args, Machine(args.total, ramAvail))
       IN ret' = [raised |-> usage.raised, usage |-> usage.info,
                  probe |-> get_system_memory_info(args, Machine(args.total, ramAvail))]
    /\ UNCHANGED <<args, sec_config, varsM, clock, varsR, varsG, varsS, varsI, varsL>>

NextPB == PB_Call

(* Bound: the largest ACESTEP_GENERATION_LIMIT_PER_HOUR configured; line 79 *)
(* takes any integer the environment gives, 0 included.                     *)
MaxConfiguredGenerations == 2
ConfiguredGenerations == 0..MaxConfiguredGenerations

(* One can_generate call of a GenerationLimiter built with                  *)
(* args.max_generations (lines 160, 331), on an identifier with the         *)
(* recorded events args.events, at the clock value args.now.                *)
GC_CanGenerate ==
    /\ args.fn = "can_generate"
    /\ ret = Pending
    /\ ret' = gl_can_generate(args.events, args.now, args.max_generations,
                              gl_window_seconds)
    /\ UNCHANGED <<args, sec_config, varsM, clock, varsR, varsG, varsS, varsI, varsL>>

NextGC == GC_CanGenerate

----------------------------------------------------------------------------
(* Initial states: each component as its constructor leaves it.             *)

InitM ==
    /\ generation_count = 0
    /\ completed = [ok |-> 0, failed |-> 0]
    /\ pcM = [t \in Threads |-> "idle"]
    /\ locM = [t \in Threads |-> NoCall]

InitR ==
    /\ requests = <<>>
    /\ tally = [id \in Ids |-> [allowed |-> 0, denied |-> 0, granted |-> <<>>]]
    /\ pcR = [t \in Threads |-> "idle"]
    /\ locR = [t \in Threads |-> NoRL]

InitG ==
    /\ generations = <<>>
    /\ pcG = [t \in Threads |-> "idle"]
    /\ locG = [t \in Threads |-> NoGL]

InitS ==
    /\ sessions = <<>>
    /\ issued = {}
    /\ pcS = [t \in Threads |-> "idle"]
    /\ locS = [t \in Threads |-> NoSM]

(* No instance yet: the class attributes of lines 233-234 and 307-308.      *)
InitI ==
    /\ instance = 0
    /\ initialized = "unset"
    /\ components = 0
    /\ cls_lock = ""
    /\ pcI = [t \in Threads |-> "idle"]
    /\ locI = [t \in Threads |-> NoNew]

(* SecurityConfig's defaults (lines 48-50), and no call under study.        *)
InitA ==
    /\ sec_config = DefaultSecurityConfig
    /\ args = NoArgs
    /\ ret = Pending

----------------------------------------------------------------------------
(* Lock discipline: what each operation does to the threading.Lock objects  *)
(* and where it takes a memory snapshot.                                    *)

Locks == {"RateLimiter._lock", "GenerationLimiter._lock", "SessionManager._lock",
          "SecurityManager._lock", "MemoryManager._lock"}

(* with lock: ...   The body between the two steps runs with the lock held. *)
WithLock(lock) == <<[do |-> "acquire", lock |-> lock], [do |-> "release", lock |-> lock]>>

(* get_system_memory_info(), lines 39-81 of memory_manager.py.              *)
Snapshot == <<[do |-> "snapshot", lock |-> ""]>>

(* One operation after another, each along any of its paths.                *)
Then(A, B) == {a \o b : a \in A, b \in B}

(* __new__, lines 237-242 / 311-316: the lock is taken only when no         *)
(* instance was seen.                                                       *)
NewPlans(lock) == {<<>>, WithLock(lock)}

(* check_rate_limit, lines 438-447: is_allowed, and get_reset_time after    *)
(* is_allowed has returned a denial.                                        *)
check_rate_limit_nested_plans ==
    {WithLock("RateLimiter._lock"),
     <<[do |-> "acquire", lock |-> "RateLimiter._lock"]>>
        \o WithLock("RateLimiter._lock")
        \o <<[do |-> "release", lock |-> "RateLimiter._lock"]>>}

check_rate_limit_plans ==
    {WithLock("RateLimiter._lock"),
     WithLock("RateLimiter._lock") \o WithLock("RateLimiter._lock")}

(* MemoryManager.can_generate, lines 324-355: one snapshot, and a second    *)
(* one at the end of emergency_memory_cleanup (line 140).                   *)
can_generate_plans == {Snapshot, Snapshot \o Snapshot}

(* force_memory_cleanup, lines 397-424: emergency_memory_cleanup's snapshot *)
(* on every fifth count.                                                    *)
force_memory_cleanup_plans == {<<>>, Snapshot}

(* The paths of each public operation.                                      *)
Plans(op) ==
    CASE op = "RateLimiter.is_allowed" -> {WithLock("RateLimiter._lock")}
      [] op = "RateLimiter.get_reset_time" -> {WithLock("RateLimiter._lock")}
      [] op = "RateLimiter.cleanup" -> {WithLock("RateLimiter._lock")}
      [] op = "GenerationLimiter.can_generate" -> {WithLock("GenerationLimiter._lock")}
      [] op = "GenerationLimiter.record_generation" -> {WithLock("GenerationLimiter._lock")}
      [] op = "SessionManager.create_session" -> {WithLock("SessionManager._lock")}
      [] op = "SessionManager.validate_session" -> {<<>>, WithLock("SessionManager._lock")}
      [] op = "SessionManager.end_session" -> {WithLock("SessionManager._lock")}
      [] op = "SessionManager.cleanup_expired" -> {<<>>, WithLock("SessionManager._lock")}
      [] op = "SecurityManager" -> NewPlans("SecurityManager._lock")
      [] op = "MemoryManager" -> Then(NewPlans("MemoryManager._lock"), {<<>>, Snapshot})
      [] op = "SecurityManager.check_rate_limit" -> check_rate_limit_plans
      [] op = "rate_limited" ->
            Then(NewPlans("SecurityManager._lock"), check_rate_limit_plans)
      [] op = "MemoryManager.can_generate" -> can_generate_plans
      [] op = "MemoryManager.get_status" -> {Snapshot}
      [] op = "MemoryManager.generation_context" ->
            can_generate_plans \cup
            Then(can_generate_plans, force_memory_cleanup_plans)
      [] op = "generate" ->
            Then({WithLock("GenerationLimiter._lock")},
                 Then(Then(can_generate_plans, force_memory_cleanup_plans),
                      {WithLock("GenerationLimiter._lock")}))

Operations ==
    {"RateLimiter.is_allowed", "RateLimiter.get_reset_time", "RateLimiter.cleanup",
     "GenerationLimiter.can_generate", "GenerationLimiter.record_generation",
     "SessionManager.create_session", "SessionManager.validate_session",
     "SessionManager.end_session", "SessionManager.cleanup_expired",
     "SecurityManager", "MemoryManager", "SecurityManager.check_rate_limit",
     "rate_limited", "MemoryManager.can_generate", "MemoryManager.get_status",
     "MemoryManager.generation_context", "generate"}

Idle == [plan |-> <<>>, at |-> 0]

(* The step a thread is at, and the locks it holds.                         *)
AtEnd(t) == pcL[t].at > Len(pcL[t].plan)
NextStep(t) == pcL[t].plan[pcL[t].at]
Held(t) == {l \in Locks : lock_holder[l] = t}

(* A thread enters an operation along one of its paths.                     *)
L_Call(t) ==
    /\ pcL[t] = Idle
    /\ \E op \in Operations : \E plan \in Plans(op) :
         pcL' = [pcL EXCEPT ![t] = [plan |-> plan, at |-> 1]]
    /\ UNCHANGED <<lock_holder, varsM, clock, varsR, varsG, varsS, varsI, varsA>>

(* threading.Lock.acquire: it blocks while the lock has a holder, the       *)
(* caller itself included.                                                  *)
L_Acquire(t) ==
    /\ pcL[t] # Idle /\ ~AtEnd(t)
    /\ NextStep(t).do = "acquire"
    /\ lock_holder[NextStep(t).lock] = ""
    /\ lock_holder' = [lock_holder EXCEPT ![NextStep(t).lock] = t]
    /\ pcL' = [pcL EXCEPT ![t].at = @ + 1]
    /\ UNCHANGED <<varsM, clock, varsR, varsG, varsS, varsI, varsA>>

(* threading.Lock.release at the end of the with block.                     *)
L_Release(t) ==
    /\ pcL[t] # Idle /\ ~AtEnd(t)
    /\ NextStep(t).do = "release"
    /\ lock_holder' = [lock_holder EXCEPT ![NextStep(t).lock] = ""]
    /\ pcL' = [pcL EXCEPT ![t].at = @ + 1]
    /\ UNCHANGED <<varsM, clock, varsR, varsG, varsS, varsI, varsA>>

(* The system call of a memory snapshot.                                    *)
L_Snapshot(t) ==
    /\ pcL[t] # Idle /\ ~AtEnd(t)
    /\ NextStep(t).do = "snapshot"
    /\ pcL' = [pcL EXCEPT ![t].at = @ + 1]
    /\ UNCHANGED <<lock_holder, varsM, clock, varsR, varsG, varsS, varsI, varsA>>

(* The operation returns.                                                   *)
L_Return(t) ==
    /\ pcL[t] # Idle /\ AtEnd(t)
    /\ pcL' = [pcL EXCEPT ![t] = Idle]
    /\ UNCHANGED <<lock_holder, varsM, clock, varsR, varsG, varsS, varsI, varsA>>

NextL ==
    \/ \E t \in Threads : L_Call(t)
    \/ \E t \in Threads : L_Acquire(t)
    \/ \E t \in Threads : L_Release(t)
    \/ \E t \in Threads : L_Snapshot(t)
    \/ \E t \in Threads : L_Return(t)

(* Every lock is free and no thread is inside an operation.                 *)
InitL ==
    /\ lock_holder = [l \in Locks |-> ""]
    /\ pcL = [t \in Threads |-> Idle]

InitX == InitI /\ InitA /\ InitL

(* The machine's memory and the thresholds are whatever they are; the       *)
(* security components are as built from the defaults.                      *)
InitMem ==
    /\ config \in MemoryConfig
    /\ max_regions = MaxGenerationCount
    /\ ramAvail \in 0..MaxAvail
    /\ clock = 0
    /\ timeout_minutes = 1
    /\ InitM /\ InitR /\ InitG /\ InitS /\ InitX

(* The security components as built from the defaults; the memory manager   *)
(* is as built from the defaults on a machine with memory to spare.         *)
InitSec ==
    /\ config = DefaultConfig
    /\ max_regions = MaxGenerationCount
    /\ ramAvail = MaxAvail
    /\ clock = 0
    /\ timeout_minutes = 1
    /\ InitM /\ InitR /\ InitG /\ InitS /\ InitX

(* The same, with a SessionManager built with any timeout.                  *)
InitSess ==
    /\ config = DefaultConfig
    /\ max_regions = MaxGenerationCount
    /\ ramAvail = MaxAvail
    /\ clock = 0
    /\ timeout_minutes \in TimeoutChoices
    /\ InitM /\ InitR /\ InitG /\ InitS /\ InitX

(* The memory manager on a machine with memory to spare, before a longer   *)
(* run of protected regions.                                                *)
InitDeep ==
    /\ config \in MemoryConfig
    /\ max_regions = MaxDeepRegions
    /\ ramAvail = MaxAvail
    /\ clock = 0
    /\ timeout_minutes = 1
    /\ InitM /\ InitR /\ InitG /\ InitS /\ InitX

(* The same as InitMem, before a run of a few protected regions.            *)
InitQuiet ==
    /\ config \in MemoryConfig
    /\ max_regions = MaxQuietRegions
    /\ ramAvail \in 0..MaxAvail
    /\ clock = 0
    /\ timeout_minutes = 1
    /\ InitM /\ InitR /\ InitG /\ InitS /\ InitX

(* A SecurityManager with any access-control configuration, and a call of   *)
(* check_ip_access with any string.                                         *)
InitIp ==
    /\ config = DefaultConfig
    /\ max_regions = MaxGenerationCount
    /\ ramAvail = MaxAvail
    /\ clock = 0
    /\ timeout_minutes = 1
    /\ InitM /\ InitR /\ InitG /\ InitS /\ InitI /\ InitL
    /\ sec_config \in SecurityConfig
    /\ args \in [fn : {"check_ip_access"}, ip_address : IpStrings]
    /\ ret = Pending

(* MemoryManager() is about to build its MemoryConfig from the environment, *)
(* with the memory of the machine at any level.                             *)
InitParams ==
    /\ config = DefaultConfig
    /\ max_regions = MaxGenerationCount
    /\ ramAvail \in 0..MaxParamAvail
    /\ clock = 0
    /\ timeout_minutes = 1
    /\ InitM /\ InitR /\ InitG /\ InitS /\ InitI /\ InitL
    /\ sec_config = DefaultSecurityConfig
    /\ args \in [fn : {"MemoryConfig"},
                  max_duration_seconds : ConfiguredDurations,
                  max_batch_size : ConfiguredBatchSizes,
                  available_ram : {ramAvail}]
    /\ ret = Pending

(* A GenerationLimiter built with any configured limit, with any recorded   *)
(* events for the identifier, and a can_generate call at any moment.        *)
InitGenConfig ==
    /\ config = DefaultConfig
    /\ max_regions = MaxGenerationCount
    /\ ramAvail = MaxAvail
    /\ clock = 0
    /\ timeout_minutes = 1
    /\ InitM /\ InitR /\ InitG /\ InitS /\ InitI /\ InitL
    /\ sec_config = DefaultSecurityConfig
    /\ args \in [fn : {"can_generate"}, max_generations : ConfiguredGenerations,
                  events : RecordedLists, now : GenTimes]
    /\ ret = Pending

(* A machine with any memory and any state of the telemetry providers, and  *)
(* a call of can_generate or get_status.                                    *)
InitProbe ==
    /\ config = DefaultConfig
    /\ max_regions = MaxGenerationCount
    /\ ramAvail \in 0..MaxProbeAvail
    /\ clock = 0
    /\ timeout_minutes = 1
    /\ InitM /\ InitR /\ InitG /\ InitS /\ InitI /\ InitL
    /\ sec_config = DefaultSecurityConfig
    /\ args \in [fn : ProbeCallers, psutil : PsutilStates,
                  meminfo : MeminfoStates, total : TotalChoices]
    /\ ret = Pending

(* A GenerationLimiter with any recorded history, at any moment.            *)
InitGenMsg ==
    /\ config = DefaultConfig
    /\ max_regions = MaxGenerationCount
    /\ ramAvail = MaxAvail
    /\ clock \in GenTimes
    /\ timeout_minutes = 1
    /\ InitM /\ InitR /\ InitS /\ InitX
    /\ \E l \in RecordedLists : generations = [id \in GenIds |-> l]
    /\ pcG = [t \in Threads |-> "idle"]
    /\ locG = [t \in Threads |-> NoGL]

Init == InitMem

NextM ==
    \/ \E t \in Threads : MM_Call(t)
    \/ \E t \in Threads : MM_Cleanup(t)
    \/ \E t \in Threads : MM_Enter(t)
    \/ \E t \in Threads : MM_Exit(t)
    \/ \E t \in Threads : MM_ForceCleanup(t)
    \/ \E t \in Threads : MM_ForceCleanupStore(t)
    \/ \E t \in Threads : MM_Return(t)

(* The memory manager with the rest of the machine changing the available   *)
(* memory at any time.                                                      *)
SpecMem == InitMem /\ [][NextM \/ EnvMemory]_vars

(* The memory manager on a machine where only the protected regions take    *)
(* and release memory.                                                      *)
SpecMemQuiet == InitQuiet /\ [][NextM]_vars

(* A longer run of protected regions, enough for the periodic cleanup.      *)
SpecDeep == InitDeep /\ [][NextM]_vars

(* Concurrent first accesses to MemoryManager() or SecurityManager().       *)
SpecNew == InitSec /\ [][NextI]_vars

(* check_ip_access on any configuration and address.                        *)
SpecIp == InitIp /\ [][NextIp]_vars

(* The generation limits of a manager built from any environment.           *)
SpecParams == InitParams /\ [][NextP]_vars

(* The memory probe under every state of its providers.                     *)
SpecProbe == InitProbe /\ [][NextPB]_vars

(* Concurrent callers of one RateLimiter.                                   *)
SpecRate == InitSec /\ [][NextR]_vars

(* The same, with get_reset_time and cleanup called at any time.            *)
SpecRateMaint == InitSec /\ [][NextRMaint]_vars

(* Concurrent callers of one GenerationLimiter.                             *)
SpecGen == InitSec /\ [][NextG]_vars
SpecGenProtocol == InitSec /\ [][NextGP]_vars

(* Callers of GenerationLimiter.can_generate on any recorded history.       *)
SpecGenMsg == InitGenMsg /\ [][NextGMsg]_vars
SpecGenConfig == InitGenConfig /\ [][NextGC]_vars

(* Concurrent callers of one SessionManager.                                *)
SpecSess == InitSess /\ [][NextS]_vars
SpecLocks == InitSec /\ [][NextL]_vars
SpecSessMaint == InitSess /\ [][NextSMaint]_vars

----------------------------------------------------------------------------
(* Properties of the memory manager *)

RegionOps == {"generation_context", "memory_limit_decorator"}

(* The decision of caller t's can_generate is known and not yet used up.    *)
DecisionVisible(t) ==
    /\ pcM[t] \in {"returned", "raised", "admitted"}
    /\ locM[t].decided

RECURSIVE SumEst(_)
SumEst(S) ==
    IF S = {} THEN 0
    ELSE LET t == CHOOSE x \in S : TRUE
         IN locM[t].est + SumEst(S \ {t})

(* C1: whenever the snapshot can_generate decided on had available below    *)
(* min_free_ram_gb, the call was denied, whatever the estimated cost.       *)
C1_BelowFloorDenied ==
    \A t \in Threads :
        (DecisionVisible(t) /\ locM[t].available < config.min_free_ram_gb)
            => ~locM[t].can_proceed

C1_Witness ==
    \E t \in Threads :
        /\ DecisionVisible(t)
        /\ locM[t].available < config.min_free_ram_gb
        /\ locM[t].est < 0
        /\ locM[t].available - locM[t].est >= config.min_free_ram_gb
        /\ ~locM[t].can_proceed

(* C2 as stated: whenever available >= floor and available - cost >= floor, *)
(* can_generate allowed, for every configured floor, critical and warning   *)
(* threshold.                                                               *)
C2_HeadroomAllowed_AnyThresholds ==
    \A t \in Threads :
        ( /\ DecisionVisible(t)
          /\ locM[t].available >= config.min_free_ram_gb
          /\ locM[t].available - locM[t].est >= config.min_free_ram_gb )
            => locM[t].can_proceed

(* C2, amended: whenever available >= floor, available - cost >= floor and  *)
(* available >= critical_threshold_gb (always so when critical <= floor, as *)
(* with the default thresholds), can_generate allowed.                      *)
C2_HeadroomAllowed ==
    \A t \in Threads :
        ( /\ DecisionVisible(t)
          /\ locM[t].available >= config.min_free_ram_gb
          /\ locM[t].available - locM[t].est >= config.min_free_ram_gb
          /\ locM[t].available >= config.critical_threshold_gb )
            => locM[t].can_proceed

C2_Witness ==
    \E t \in Threads :
        /\ DecisionVisible(t)
        /\ locM[t].available >= config.min_free_ram_gb
        /\ locM[t].available - locM[t].est >= config.min_free_ram_gb
        /\ locM[t].available >= config.critical_threshold_gb
        /\ locM[t].available < config.warning_threshold_gb
        /\ locM[t].can_proceed
        /\ locM[t].message = "LOW_MEMORY_WARNING"

(* C3: while a protected region is admitted or running, the available       *)
(* memory less the estimated costs of the regions admitted and not yet      *)
(* started stays at or above min_free_ram_gb (the regions that run have     *)
(* taken theirs out of the available memory already).                       *)
C3_FloorNeverCrossed ==
    (\E t \in Threads : pcM[t] \in {"admitted", "running"})
        => ramAvail - SumEst({t \in Threads : pcM[t] = "admitted"})
               >= config.min_free_ram_gb

(* C9: a generation_context or decorator call whose admission check denied  *)
(* raises MemoryError; it has not entered the region, no                    *)
(* force_memory_cleanup has run for it, the step that raises leaves         *)
(* _generation_count alone, and all it can do next is propagate.            *)
C9_DeniedState ==
    \A t \in Threads :
        (locM[t].op \in RegionOps /\ locM[t].decided /\ ~locM[t].can_proceed)
            => /\ pcM[t] = "raised"
               /\ ~locM[t].entered
               /\ locM[t].fc_calls = 0

C9_DeniedStep ==
    \A t \in Threads :
        /\ (pcM[t] # "raised" /\ pcM'[t] = "raised")
              => generation_count' = generation_count
        /\ pcM[t] = "raised"
              => /\ pcM'[t] \in {"raised", "idle"}
                 /\ (pcM'[t] = "idle" => generation_count' = generation_count)

C9_DeniedNeverEnters == []C9_DeniedState /\ [][C9_DeniedStep]_vars

C9_Witness ==
    \E t \in Threads :
        /\ pcM[t] = "raised"
        /\ locM[t].op = "generation_context"
        /\ locM[t].message = "WOULD_LEAVE_LESS"

(* C10: an entry that was admitted and has left the region has called       *)
(* force_memory_cleanup exactly once, whether the region returned or        *)
(* raised; until the region is left it has called it not at all.            *)
C10_CleanupExactlyOnce ==
    \A t \in Threads :
        locM[t].entered =>
            /\ pcM[t] \in {"running", "finally", "fc_write", "exited"}
            /\ pcM[t] \in {"running", "finally"} => locM[t].fc_calls = 0
            /\ pcM[t] \in {"fc_write", "exited"} => locM[t].fc_calls = 1

C10_Witness ==
    \E t, u \in Threads :
        /\ pcM[t] = "exited" /\ locM[t].failed
        /\ locM[t].op = "generation_context" /\ locM[t].fc_calls = 1
        /\ pcM[u] = "exited" /\ ~locM[u].failed
        /\ locM[u].op = "memory_limit_decorator" /\ locM[u].fc_calls = 1

(* Caller t's force_memory_cleanup, called at the end of its region, comes  *)
(* to its end in this step.                                                 *)
CleanupEnds(t) ==
    /\ pcM[t] \in {"finally", "fc_write"}
    /\ pcM'[t] = "exited"

C11_CountStep ==
    \A t \in Threads :
        CleanupEnds(t) =>
            IF config.aggressive_gc
            THEN /\ pcM[t] = "fc_write"
                 /\ generation_count' = locM[t].tmp + 1
                 /\ locM'[t].deep <=> (generation_count' % 5 = 0)
            ELSE /\ generation_count' = generation_count
                 /\ ~locM'[t].deep

C12_ConstructedOnce ==
    /\ instance <= 1
    /\ components <= 1
    /\ \A t \in Threads :
          pcI[t] = "have" =>
             /\ locI[t].self = 1
             /\ locI[t].seen = 1
             /\ locI[t].seen = components

(* C13: with ip the address given, less the blanks around it,               *)
(* check_ip_access denies when ip is in blocked_ips; otherwise denies when  *)
(* localhost_only is set and ip is not a loopback address; otherwise denies *)
(* when allowed_ips is non-empty and ip is not in it; otherwise allows. An  *)
(* ip in both lists is denied, and the call changes no state.               *)
C13_Decision ==
    ret # Pending =>
        LET ip == strip(args.ip_address)
            blocked == ip \in sec_config.blocked_ips
            foreign == sec_config.localhost_only /\ ip \notin Loopback
            unlisted == sec_config.allowed_ips # {} /\ ip \notin sec_config.allowed_ips
        IN /\ blocked => ret = [is_allowed |-> FALSE, message |-> "Acesso bloqueado"]
           /\ ~blocked /\ foreign =>
                 ret = [is_allowed |-> FALSE, message |-> "Apenas acesso local permitido"]
           /\ ~blocked /\ ~foreign /\ unlisted =>
                 ret = [is_allowed |-> FALSE, message |-> "IP nao autorizado"]
           /\ ~blocked /\ ~foreign /\ ~unlisted =>
                 ret = [is_allowed |-> TRUE, message |-> ""]
           /\ ip \in sec_config.allowed_ips \cap sec_config.blocked_ips =>
                 ~ret.is_allowed

C13_IpAccess ==
    /\ []C13_Decision
    /\ [][UNCHANGED <<sec_config, varsR, varsG, varsS, varsI, varsM>>]_vars

(* An address given with blanks around it, on both lists, was denied as     *)
(* blocked.                                                                 *)
C13_Witness ==
    /\ ret # Pending
    /\ args.ip_address = <<" ", "10.0.0.5", " ">>
    /\ <<"10.0.0.5">> \in sec_config.allowed_ips \cap sec_config.blocked_ips
    /\ ~sec_config.localhost_only
    /\ ret.message = "Acesso bloqueado"

(* C16: whenever can_generate decided on a snapshot with available below    *)
(* critical_threshold_gb, emergency_memory_cleanup was attempted before the *)
(* decision, under the default thresholds and under any others.             *)
C16_CleanupBelowCritical ==
    \A t \in Threads :
        DecisionVisible(t) /\ locM[t].available < config.critical_threshold_gb
            => locM[t].cleanups >= 1

(* C17: a can_generate decision makes at most one cleanup attempt and one   *)
(* re-query, and then is decided: allowed if the fresh available value is   *)
(* at least the floor, and otherwise denied with the critical-shortage      *)
(* reason.                                                                  *)
C17_RecheckStep ==
    \A t \in Threads :
        pcM[t] = "cleanup" /\ pcM'[t] # "cleanup" =>
            /\ locM'[t].decided
            /\ locM'[t].cleanups = 1
            /\ locM'[t].can_proceed <=> ramAvail >= config.min_free_ram_gb
            /\ ~locM'[t].can_proceed => locM'[t].message = "CRITICAL_SHORTAGE"

C17_OneCleanupThenFloor ==
    /\ [](\A t \in Threads : locM[t].cleanups <= 1)
    /\ [][C17_RecheckStep]_vars

(* C18: whatever fails underneath (psutil missing, a psutil call raising,   *)
(* /proc/meminfo unreadable), get_system_memory_info returns a snapshot,    *)
(* the fixed fallback when nothing can be read, and no error reaches        *)
(* can_generate or get_status.                                              *)
C18_ProbeNeverFails ==
    ret # Pending =>
        /\ ~ret.probe.raised
        /\ ~ret.raised
        /\ args.psutil = "missing" /\ args.meminfo = "unreadable"
              => ret.probe.info = FallbackInfo

(* C14: the batch size is 1 on every path: validate_generation_params      *)
(* returns batch_size 1 for every input batch_size, values <= 0 included;   *)
(* the built MemoryConfig has max_batch_size 1 whatever was configured; and *)
(* get_generation_constraints reports max_batch_size 1.                     *)
C14_BatchPinned ==
    /\ args.fn = "validate_generation_params" => ret.batch_size = 1
    /\ args.fn \in ParamCalls /\ ret # Pending => config.max_batch_size = 1
    /\ args.fn = "get_generation_constraints" => ret.max_batch_size = 1

(* C15: validate_generation_params returns min(duration, ceiling) for the   *)
(* ceiling of the available memory, warns about the duration exactly when   *)
(* it clamps it, and for the built configuration the ceiling is             *)
(* non-decreasing in the available memory.                                  *)
C15_DurationCeiling ==
    args.fn = "validate_generation_params" =>
        /\ ret.duration = Min(args.duration, max_duration(config, args.available))
        /\ (\E i \in 1..Len(ret.warnings) : ret.warnings[i] = "duration")
              <=> ret.duration # args.duration
        /\ \A lo, hi \in 0..MaxParamAvail :
              lo <= hi => max_duration(config, lo) <= max_duration(config, hi)

----------------------------------------------------------------------------
(* Properties of RateLimiter, GenerationLimiter and SessionManager *)

(* Every event of list is within window seconds of now.                     *)
AllWithin(list, now, window) ==
    \A i \in 1..Len(list) : list[i] > now - window

(* C4: an is_allowed call that finds k earlier events of its identifier,    *)
(* all within the window, is allowed with remaining N - k - 1 and records   *)
(* its event when k < N, and is denied with remaining 0 and records nothing *)
(* when k = N; no identifier ever has more than N events stored.            *)
C4_FirstNAllowedThenDenied ==
    /\ \A id \in DOMAIN requests : Len(requests[id]) <= rl_max_requests
    /\ \A t \in Threads :
         (pcR[t] = "rl_done"
            /\ AllWithin(locR[t].before, locR[t].now, rl_window_seconds))
         => LET k == Len(locR[t].before)
            IN IF k < rl_max_requests
               THEN /\ locR[t].allowed
                    /\ locR[t].remaining = rl_max_requests - k - 1
                    /\ locR[t].after = Append(locR[t].before, locR[t].now)
               ELSE /\ ~locR[t].allowed
                    /\ locR[t].remaining = 0
                    /\ locR[t].after = locR[t].before

C4_Witness ==
    \E t, u \in Threads :
        /\ pcR[t] = "rl_done" /\ pcR[u] = "rl_done"
        /\ locR[t].identifier = locR[u].identifier
        /\ locR[u].allowed /\ locR[u].remaining = 0
        /\ ~locR[t].allowed /\ locR[t].remaining = 0
        /\ Len(locR[t].before) = rl_max_requests
        /\ AllWithin(locR[t].before, locR[t].now, rl_window_seconds)
        /\ locR[t].now > locR[t].before[1]

(* C5: an is_allowed call that finds its identifier at the cap and is made  *)
(* window_seconds or more after the earliest stored event is allowed.       *)
C5_WindowSlides ==
    \A t \in Threads :
        ( /\ pcR[t] = "rl_done"
          /\ Len(locR[t].before) >= rl_max_requests
          /\ locR[t].before # <<>>
          /\ locR[t].now >= MinOf(locR[t].before) + rl_window_seconds )
        => locR[t].allowed

C5_Witness ==
    \E t \in Threads :
        /\ pcR[t] = "rl_done"
        /\ Len(locR[t].before) = rl_max_requests
        /\ locR[t].now = MinOf(locR[t].before) + rl_window_seconds
        /\ locR[t].allowed
        /\ Len(locR[t].after) = rl_max_requests

(* C6: while all calls lie in one window (the clock has not reached         *)
(* window_seconds since the empty start), of the n calls completed for an   *)
(* identifier exactly min(n, max_requests) were allowed, the others denied, *)
(* and exactly that many events are stored, whatever the interleaving.      *)
C6_ExactlyCapAllowed ==
    clock < rl_window_seconds =>
        \A id \in Ids :
            LET n == tally[id].allowed + tally[id].denied
            IN /\ tally[id].allowed = Min(n, rl_max_requests)
               /\ Len(Get(requests, id)) = tally[id].allowed

C6_Witness ==
    /\ clock < rl_window_seconds
    /\ \E id \in Ids :
         /\ tally[id].allowed = rl_max_requests
         /\ tally[id].denied >= 1
         /\ Len(Get(requests, id)) = rl_max_requests
         /\ \A t \in Threads : pcR[t] = "rl_done" /\ locR[t].identifier = id

C8_ValidateSession ==
    \A t \in Threads :
        pcS[t] = "sm_done" =>
            LET known == locS[t].before # {}
                s == CHOOSE x \in locS[t].before : TRUE
                expired == /\ timeout_seconds > 0
                           /\ locS[t].now - s.last_activity > timeout_seconds
            IN /\ (locS[t].result = {}) <=> (~known \/ expired)
               /\ ~known => locS[t].stored = {}
               /\ (known /\ expired) => locS[t].stored = {}
               /\ (known /\ ~expired) =>
                     /\ locS[t].result = {[s EXCEPT !.last_activity = locS[t].now]}
                     /\ locS[t].stored = locS[t].result
               /\ (known /\ timeout_seconds <= 0) => locS[t].result # {}

C8_Witness ==
    \E t, u \in Threads :
        /\ pcS[t] = "sm_done" /\ pcS[u] = "sm_done"
        /\ timeout_seconds > 0
        /\ \E s \in locS[t].before :
             /\ locS[t].now - s.last_activity = timeout_seconds
             /\ locS[t].result = {[s EXCEPT !.last_activity = locS[t].now]}
        /\ \E s \in locS[u].before :
             /\ locS[u].now - s.last_activity > timeout_seconds
             /\ locS[u].result = {}
             /\ locS[u].session_id \notin DOMAIN sessions


(* C19: when GenerationLimiter.can_generate denies, the minute count of its *)
(* message is at least 1 and is floor((oldest live event + window - now) /  *)
(* 60) + 1, for every recorded history at or over the cap.                  *)
C19_RetryMinutes ==
    \A t \in Threads :
        (pcG[t] = "gl_done" /\ ~locG[t].allowed /\ ~locG[t].raised) =>
            LET live == Live(locG[t].before, locG[t].now - gl_window_seconds)
            IN /\ Len(live) >= gl_max_generations
               /\ live # <<>>
               /\ locG[t].reset_minutes >= 1
               /\ locG[t].reset_minutes =
                     ((MinOf(live) + gl_window_seconds - locG[t].now) \div 60) + 1

(* A denial one second before the oldest of two live events leaves the      *)
(* window: the message says 1 minute.                                       *)
C19_Witness ==
    \E t \in Threads :
        /\ pcG[t] = "gl_done" /\ ~locG[t].allowed /\ ~locG[t].raised
        /\ Len(locG[t].after) >= 2
        /\ locG[t].after[1] < locG[t].after[2]
        /\ locG[t].after[1] + gl_window_seconds - locG[t].now = 1
        /\ locG[t].reset_minutes = 1

(* C20: an is_allowed call for one identity decides on that identity's own  *)
(* stored events and changes nothing of any other identity: the other's     *)
(* stored events, its counts of results, and the locals and result of a     *)
(* call in progress for it are as they were.                                *)
C20_IsAllowedStep ==
    \A t \in Threads :
        pcR[t] = "rl_lock" /\ pcR'[t] = "rl_done" =>
            LET a == locR[t].identifier
                own == is_allowed(Get(requests, a), locR[t].now,
                                  rl_max_requests, rl_window_seconds)
            IN /\ locR'[t].allowed = own.allowed
               /\ locR'[t].remaining = own.remaining
               /\ Get(requests', a) = own.events
               /\ \A b \in Ids \ {a} :
                     /\ Get(requests', b) = Get(requests, b)
                     /\ tally'[b] = tally[b]
               /\ \A u \in Threads \ {t} : locR'[u] = locR[u]

C20_IdentitiesIndependent == [][C20_IsAllowedStep]_vars

(* Identity a has used up its cap while identity b's one event is stored,   *)
(* and b's call still has its full remainder less one.                      *)
C20_Witness ==
    \E t \in Threads :
        /\ pcR[t] = "rl_done" /\ locR[t].identifier = "a"
        /\ locR[t].allowed /\ locR[t].remaining = 0
        /\ Len(Get(requests, "a")) = rl_max_requests
        /\ Len(Get(requests, "b")) = 1
        /\ tally["b"].allowed = 1 /\ tally["b"].denied = 0

(* C21: get_reset_time returns oldest_live + window - now for the oldest    *)
(* live event of the identity, and 0 when it has no live event, whether or  *)
(* not the stored list still holds stale events.                            *)
C21_ResetTime ==
    \A t \in Threads :
        pcR[t] = "rs_done" =>
            LET live == Live(locR[t].before, locR[t].now - rl_window_seconds)
            IN locR[t].reset_time =
                  IF live = <<>> THEN 0
                  ELSE MinOf(live) + rl_window_seconds - locR[t].now

(* The identities with a live event at the clock value now.                 *)
HasLive(table, now) ==
    {k \in DOMAIN table : Live(table[k], now - rl_window_seconds) # <<>>}

(* C22: cleanup drops exactly the identities with no live event and leaves  *)
(* the others as they are, and the is_allowed and get_reset_time calls that *)
(* come after it, those in progress included, return what they would have   *)
(* returned without it.                                                     *)
C22_CleanupStep ==
    \A t \in Threads :
        pcR[t] = "cl_lock" /\ pcR'[t] = "cl_done" =>
            /\ requests' = [k \in HasLive(requests, locR[t].now) |-> requests[k]]
            /\ \A id \in Ids, now \in clock..MaxTime :
                  get_reset_time(Get(requests', id), now, rl_window_seconds)
                    = get_reset_time(Get(requests, id), now, rl_window_seconds)
            /\ \A id \in Ids, now \in clock..MaxTime :
                  LET with == is_allowed(Get(requests', id), now,
                                         rl_max_requests, rl_window_seconds)
                      without == is_allowed(Get(requests, id), now,
                                            rl_max_requests, rl_window_seconds)
                  IN with = without
            /\ \A u \in Threads :
                  pcR[u] = "rl_lock" =>
                     is_allowed(Get(requests', locR[u].identifier), locR[u].now,
                                rl_max_requests, rl_window_seconds)
                       = is_allowed(Get(requests, locR[u].identifier), locR[u].now,
                                    rl_max_requests, rl_window_seconds)

C22_CleanupExact == [][C22_CleanupStep]_vars

(* C23: end_session(id) on any table, with id in it or not, leaves a table  *)
(* without id and with every other session as it was; a second end_session  *)
(* changes nothing more; validate_session(id) then returns None at every    *)
(* clock value; and an id that has left the table never comes back.         *)
C23_EndSessionState ==
    \A id \in SessionIds :
        LET ended == end_session(sessions, id)
        IN /\ id \notin DOMAIN ended
           /\ \A k \in SessionIds \ {id} : Lookup(ended, k) = Lookup(sessions, k)
           /\ end_session(ended, id) = ended
           /\ \A now \in clock..(MaxSessTicks * SessTick) :
                 LET v == validate_session(ended, id, now, timeout_seconds)
                 IN v.result = {} /\ v.table = ended

C23_EndSessionStep ==
    /\ \A id \in issued \ DOMAIN sessions : id \notin DOMAIN sessions'
    /\ (sessions' # sessions /\ pcS' = pcS /\ issued' = issued) =>
          \E id \in DOMAIN sessions : sessions' = Remove(sessions, id)

C23_EndSession == []C23_EndSessionState /\ [][C23_EndSessionStep]_vars

(* With no timeout, s1 was ended while s2 stays, and a validate_session of  *)
(* s1 after that returned None.                                             *)
C23_Witness ==
    /\ timeout_minutes <= 0
    /\ "s1" \in issued \ DOMAIN sessions
    /\ "s2" \in DOMAIN sessions
    /\ \E t \in Threads :
          /\ pcS[t] = "sm_done" /\ locS[t].session_id = "s1"
          /\ locS[t].before = {} /\ locS[t].result = {}

(* C24: a cleanup_expired step removes exactly the sessions for which       *)
(* validate_session at the clock value cleanup_expired read would return    *)
(* None, and leaves every other session, its last_activity included, as it  *)
(* was; with a timeout of zero or less it returns with the table untouched. *)
C24_CleanupStep ==
    \A t \in Threads :
        /\ (pcS[t] = "ce_lock" /\ pcS'[t] = "ce_done") =>
              LET absent == {sid \in DOMAIN sessions :
                               validate_session(sessions, sid, locS[t].now,
                                                timeout_seconds).result = {}}
              IN /\ DOMAIN sessions' = DOMAIN sessions \ absent
                 /\ \A sid \in DOMAIN sessions' : sessions'[sid] = sessions[sid]
                 /\ \A sid \in absent :
                       locS[t].now - sessions[sid].last_activity > timeout_seconds
        /\ (pcS[t] = "idle" /\ pcS'[t] = "ce_done") =>
              timeout_seconds <= 0 /\ sessions' = sessions
        /\ (pcS[t] = "idle" /\ pcS'[t] = "ce_lock") => timeout_seconds > 0

C24_CleanupExpired == [][C24_CleanupStep]_vars

(* A cleanup_expired has removed one session and kept another whose idle    *)
(* time was exactly the timeout.                                            *)
C24_Witness ==
    \E t \in Threads :
        /\ pcS[t] = "ce_done"
        /\ locS[t].expired # {}
        /\ \E sid \in DOMAIN sessions :
              locS[t].now - sessions[sid].last_activity = timeout_seconds

(* C25: a thread holds at most one lock at any time; it holds none when it  *)
(* is about to take a lock or a memory snapshot; and whenever some thread   *)
(* is inside an operation, some thread inside an operation can take its     *)
(* next step (no deadlock).                                                 *)
Blocked(t) ==
    /\ pcL[t] # Idle /\ ~AtEnd(t)
    /\ NextStep(t).do = "acquire"
    /\ lock_holder[NextStep(t).lock] # ""

C25_LockDiscipline ==
    /\ \A t \in Threads : Cardinality(Held(t)) <= 1
    /\ \A t \in Threads :
         (pcL[t] # Idle /\ ~AtEnd(t) /\ NextStep(t).do \in {"acquire", "snapshot"})
            => Held(t) = {}
    /\ \A t \in Threads : Blocked(t) => ~Blocked(lock_holder[NextStep(t).lock])
    /\ (\E t \in Threads : pcL[t] # Idle) =>
          (\E t \in Threads : pcL[t] # Idle /\ ~Blocked(t))

(* One thread holds RateLimiter._lock for the second time inside            *)
(* check_rate_limit while the other waits for it.                           *)
C25_Witness ==
    \E t, u \in Threads :
        /\ Held(t) = {"RateLimiter._lock"} /\ pcL[t].at = 4
        /\ Blocked(u) /\ NextStep(u).lock = "RateLimiter._lock"

(* C26: at every is_allowed decision the count compared with max_requests   *)
(* is the number of allowed calls of that identifier whose timestamp lies   *)
(* in (t - window, t], with t the clock value the caller read or with t the *)
(* clock value when the decision is taken under the lock.                   *)
InWindow(granted, t) ==
    Cardinality({i \in 1..Len(granted) :
                    granted[i] > t - rl_window_seconds /\ granted[i] <= t})

C26_DecisionStep ==
    \A t \in Threads :
        (pcR[t] = "rl_lock" /\ pcR'[t] = "rl_done") =>
            LET id == locR[t].identifier
                current_count == Len(Live(Get(requests, id),
                                          locR[t].now - rl_window_seconds))
            IN \/ current_count = InWindow(tally[id].granted, locR[t].now)
               \/ current_count = InWindow(tally[id].granted, clock)

C26_CountIsWindowCount == [][C26_DecisionStep]_vars

(* C27: the stored event list of every identifier is non-decreasing in list *)
(* order, so that its first element is its oldest event.                    *)
NonDecreasing(list) == \A i, j \in 1..Len(list) : i <= j => list[i] <= list[j]

C27_ListsOrdered ==
    \A id \in DOMAIN requests :
        /\ NonDecreasing(requests[id])
        /\ requests[id] # <<>> => Head(requests[id]) = MinOf(requests[id])

(* The same for the GenerationLimiter, whose record_generation reads the    *)
(* clock under the lock.                                                    *)
C27_GenerationListsOrdered ==
    \A id \in DOMAIN generations : NonDecreasing(generations[id])

(* C28: when every record_generation follows an allowing                    *)
(* check_generation_limit of the same caller, the generations recorded for  *)
(* one identifier in any window of one hour never number more than          *)
(* max_generations.                                                         *)
C28_WindowCap ==
    \A id \in DOMAIN generations :
        LET list == generations[id]
        IN \A i \in 1..Len(list) :
              Cardinality({j \in 1..Len(list) :
                              list[i] <= list[j] /\ list[j] < list[i] + gl_window_seconds})
                 <= gl_max_generations

(* C29: with aggressive_gc on, _generation_count is the number of           *)
(* force_memory_cleanup executions that have completed: one for every       *)
(* region left, less the cleanups still in progress.                        *)
CleanupsInProgress == Cardinality({t \in Threads : pcM[t] \in {"finally", "fc_write"}})

C29_NoLostIncrement ==
    config.aggressive_gc =>
        generation_count = completed.ok + completed.failed - CleanupsInProgress

(* C30: no step makes a stored session's last_activity smaller, and none    *)
(* changes its created_at, username or ip_address.                          *)
C30_ActivityStep ==
    \A sid \in DOMAIN sessions \cap DOMAIN sessions' :
        /\ sessions'[sid].last_activity >= sessions[sid].last_activity
        /\ sessions'[sid].created_at = sessions[sid].created_at
        /\ sessions'[sid].username = sessions[sid].username
        /\ sessions'[sid].ip_address = sessions[sid].ip_address

C30_ActivityMonotone == [][C30_ActivityStep]_vars

(* The part about the fields set at creation, on its own.                   *)
C30_IdentityStep ==
    \A sid \in DOMAIN sessions \cap DOMAIN sessions' :
        /\ sessions'[sid].created_at = sessions[sid].created_at
        /\ sessions'[sid].username = sessions[sid].username
        /\ sessions'[sid].ip_address = sessions[sid].ip_address

C30_IdentityFixed == [][C30_IdentityStep]_vars

(* C31: for every configured max_generations >= 0 and every recorded        *)
(* history, the empty one included, can_generate returns its triple and     *)
(* does not raise.                                                          *)
C31_CanGenerateNeverRaises ==
    ret # Pending => ~ret.raised

(* C32: the max_duration_seconds that get_generation_constraints reports is *)
(* the ceiling validate_generation_params enforces at the same available    *)
(* memory: a longer request is clamped to it and a request of that length   *)
(* passes unchanged.                                                        *)
C32_ReportedIsEnforced ==
    args.fn = "get_generation_constraints" =>
        LET reported == ret.max_duration_seconds
        IN /\ reported = max_duration(config, args.available)
           /\ validate_generation_params(config, args.available, reported, 1).duration
                 = reported
           /\ validate_generation_params(config, args.available, reported + 1, 1).duration
                 = reported

====
